---- MODULE Spec2Model ----
(***************************************************************************)
(* patterncounter: the rule algebra (operators.py) and the pattern parser  *)
(* (parser.py) as a state machine.                                          *)
(*                                                                          *)
(* A Rule is a record whose "type" field names its class.  A trace          *)
(* (TSequence) is a sequence of itemsets; an itemset is a set of elements.  *)
(* Python indices are 0-based: itemset i of the code is sequence[i + 1]     *)
(* here, and a position-range (a, b) of the code is the tuple <<a, b>>.     *)
(***************************************************************************)
EXTENDS Integers, Sequences, FiniteSets, TLC

VARIABLES
    pc,         \* the step the session is at
    rule,       \* the Rule under evaluation
    sequence,   \* the trace it is evaluated on
    start,      \* the offset argument of find_positions
    positions,  \* list(rule.find_positions(sequence, start))
    checked,    \* rule.check(sequence)
    other,      \* a second, independently built Rule
    reprs,      \* <<repr(rule), repr(other)>>
    equal,      \* rule == other
    hashes,     \* <<hash(rule), hash(other)>>
    tokens,     \* the token list handed to to_rule
    parsed,     \* what to_rule returned or raised
    text,       \* the pattern text handed to tokenize and parse
    words,      \* tokenize(text)
    tree,       \* what parse(text) returned or raised
    reparsed,   \* what parse(repr(tree)) returned or raised
    replaces,   \* the table handed to ReplaceVariables
    visited,    \* what ReplaceVariables(replaces).visit(rule) returned
    variables,  \* the variable declarations, as written
    all_names,  \* the vocabulary of the corpus
    unique,     \* Bindings.unique
    rules,      \* the declared rule list
    sequence_names, \* the vocabulary of the trace at hand
    all_bindings, \* Bindings.all_bindings
    considered, \* the tuples of product(*binding_options), in order
    yielded,    \* the pairs sequence_bindings yielded, in order
    enacted,    \* Bindings.enacted
    backref,    \* Bindings.backref
    forwardref, \* Bindings.forwardref
    sequences,  \* the corpus handed to mine_rules
    rule_result, \* the rule-result map
    splits,     \* list(split_rules(rules))
    mined,      \* what mine_rules returned or raised
    trace,      \* the trace handed to in_out_sequence, a list of lists
    prefixes,   \* the in_prefix and out_prefix handed to it
    newsequence,\* the augmented trace it returned
    trace_names,\* the vocabulary it returned
    new_sequences,\* the instrumented corpus, entries (i, seq, names)
    processed,  \* the number of traces extract_metrics has been through
    working,    \* the working set of rules of the trace last processed
    rewrites,   \* the binding tuples a ReplaceVariables was run for, in order
    patterns,   \* what mine_patterns returned or raised
    shuffled    \* a permutation of the corpus and the rule-result map of a run on it

matchVars == <<rule, sequence, start, positions, checked>>
eqVars == <<other, reprs, equal, hashes>>
parseVars == <<tokens, parsed>>
textVars == <<text, words, tree, reparsed>>
visitVars == <<replaces, visited>>
bindVars == <<variables, all_names, unique, rules, sequence_names, all_bindings, considered, yielded, enacted, backref, forwardref>>
mineVars == <<sequences, rule_result, splits, mined>>
inoutVars == <<trace, prefixes, newsequence, trace_names>>
extractVars == <<new_sequences, processed, working, rewrites, patterns, shuffled>>
vars == <<pc, matchVars, eqVars, parseVars, textVars, visitVars, bindVars, mineVars, inoutVars, extractVars>>

(***************************************************************************)
(* Bounds of the model.                                                     *)
(***************************************************************************)
MaxLen == 3

Elements == {"A", "B"}

Min(S) == CHOOSE x \in S : \A y \in S : x <= y
Max(S) == CHOOSE x \in S : \A y \in S : x >= y

(***************************************************************************)
(* Constructors of the Rule classes.                                        *)
(***************************************************************************)
Has(e) == [type |-> "Has", element |-> e]

Slice(e, of, ol) ==
    [type |-> "Slice", element |-> e, subrules |-> <<>>,
     open_first |-> IF of THEN 1 ELSE 0, open_last |-> IF ol THEN 1 ELSE 0]

Lshift(slice, sub) == [slice EXCEPT !.subrules = Append(@, sub)]

Sequence(rs, same) == [type |-> "Sequence", rules |-> rs, same |-> same]

And(rs) == [type |-> "And", rules |-> rs]

Or(rs) == [type |-> "Or", rules |-> rs]

Not(r) == [type |-> "Not", rule |-> r]

Intersect(rs) == [type |-> "Intersect", rules |-> rs]

First(r) == [type |-> "First", rule |-> r]

Last(r) == [type |-> "Last", rule |-> r]

(***************************************************************************)
(* Python helpers.                                                          *)
(***************************************************************************)
\* seq[lo:hi] for integers lo, hi (hi = Len(seq) stands for None)
PySlice(seq, lo, hi) ==
    LET n == Len(seq)
        norm(i) == IF i < 0 THEN (IF i + n < 0 THEN 0 ELSE i + n)
                   ELSE (IF i > n THEN n ELSE i)
    IN  SubSeq(seq, norm(lo) + 1, norm(hi))

RECURSIVE Concat(_)
Concat(ls) == IF ls = <<>> THEN <<>> ELSE Head(ls) \o Concat(Tail(ls))

\* itertools.product(*lists): the last list varies fastest
RECURSIVE Product(_)
Product(lists) ==
    IF lists = <<>> THEN << <<>> >>
    ELSE LET rest == Product(Tail(lists))
             hd == Head(lists)
         IN  Concat([i \in 1..Len(hd) |->
                        [j \in 1..Len(rest) |-> <<hd[i]>> \o rest[j]]])

RECURSIVE find_positions(_, _, _)

\* check that answers True only from the second position on
check_SkipsFirst(r, seq) ==
    LET found == find_positions(r, seq, 0)
    IN  IF Len(found) > 1 THEN TRUE ELSE FALSE

(***************************************************************************)
(* Rule.check: the first position found returns True.                       *)
(***************************************************************************)
check(r, seq) ==
    LET found == find_positions(r, seq, 0)
    IN  IF found # <<>> THEN TRUE ELSE FALSE

(***************************************************************************)
(* Has.find_positions: one singleton range per itemset holding the element. *)
(***************************************************************************)
RECURSIVE HasLoop(_, _, _, _, _)
HasLoop(r, seq, st, i, acc) ==
    IF i = Len(seq) THEN acc
    ELSE HasLoop(r, seq, st, i + 1,
                 IF r.element \in seq[i + 1]
                 THEN Append(acc, <<i + st, i + st>>) ELSE acc)

HasFind(r, seq, st) == HasLoop(r, seq, st, 0, <<>>)

(***************************************************************************)
(* Slice.find_positions.  "first" is -1 where the code holds None.          *)
(***************************************************************************)
\* all(rule.check(window) for rule in self.subrules)
AllCheck(subrules, window) ==
    \A k \in 1..Len(subrules) : check(subrules[k], window)

\* sequence[first + self.open_first : i - self.open_last]
SliceWindow(r, seq, first, i) ==
    PySlice(seq, first + r.open_first, i - r.open_last)

\* the window of the run that ends the trace, with open_last forgotten
SliceTailWindow_Untrimmed(r, seq, first) ==
    PySlice(seq, first + r.open_first, Len(seq))

\* sequence[first + self.open_first : -self.open_last or None]
SliceTailWindow(r, seq, first) ==
    PySlice(seq, first + r.open_first,
            IF -r.open_last # 0 THEN -r.open_last ELSE Len(seq))

RECURSIVE SliceLoop(_, _, _, _, _, _)
SliceLoop(r, seq, st, i, first, acc) ==
    IF i = Len(seq)
    THEN IF first # -1 /\ AllCheck(r.subrules, SliceTailWindow(r, seq, first))
         THEN Append(acc, <<first + st, Len(seq) - 1 + st>>)
         ELSE acc
    ELSE IF first = -1 /\ r.element \in seq[i + 1]
         THEN SliceLoop(r, seq, st, i + 1, i, acc)
         ELSE IF first # -1 /\ r.element \notin seq[i + 1]
              THEN SliceLoop(r, seq, st, i + 1, -1,
                       IF AllCheck(r.subrules, SliceWindow(r, seq, first, i))
                       THEN Append(acc, <<first + st, i - 1 + st>>)
                       ELSE acc)
              ELSE SliceLoop(r, seq, st, i + 1, first, acc)

SliceFind(r, seq, st) == SliceLoop(r, seq, st, 0, -1, <<>>)

(***************************************************************************)
(* Sequence.find_positions.                                                 *)
(***************************************************************************)
\* rule_pos = [list(rule.find_positions(sequence, start)) for rule in rules]
RulePos(rs, seq, st) == [k \in 1..Len(rs) |-> find_positions(rs[k], seq, st)]

\* the break test with the "same" flag forgotten
SequenceBreak_IgnoresSame(first, second, same) == first[2] >= second[1]

\* the test that breaks out of the loop over consecutive pairs
SequenceBreak(first, second, same) ==
    first[2] >= second[1] /\ (~same \/ first[2] > second[1])

\* for first, second in zip(positions, it): ... else: yield
SequenceAccepts(tuple, same) ==
    \A k \in 1..(Len(tuple) - 1) : ~SequenceBreak(tuple[k], tuple[k + 1], same)

RECURSIVE SequenceLoop(_, _, _, _)
SequenceLoop(prod, same, k, acc) ==
    IF k > Len(prod) THEN acc
    ELSE SequenceLoop(prod, same, k + 1,
             IF SequenceAccepts(prod[k], same)
             THEN Append(acc, <<prod[k][1][1], prod[k][Len(prod[k])][2]>>)
             ELSE acc)

SequenceFind(r, seq, st) ==
    SequenceLoop(Product(RulePos(r.rules, seq, st)), r.same, 1, <<>>)

(***************************************************************************)
(* And.find_positions / Or.find_positions.                                  *)
(***************************************************************************)
\* pos[0] for rule in rule_pos for pos in rule
AllStarts(rule_pos) ==
    UNION {{rule_pos[k][j][1] : j \in 1..Len(rule_pos[k])} : k \in 1..Len(rule_pos)}

\* pos[-1] for rule in rule_pos for pos in rule
AllEnds(rule_pos) ==
    UNION {{rule_pos[k][j][2] : j \in 1..Len(rule_pos[k])} : k \in 1..Len(rule_pos)}

\* any() where And needs all()
AndGuard_Any(rule_pos) == \E k \in 1..Len(rule_pos) : rule_pos[k] # <<>>

\* all(rule_pos): every list is non-empty
AndGuard(rule_pos) == \A k \in 1..Len(rule_pos) : rule_pos[k] # <<>>

\* any(rule_pos): some list is non-empty
OrGuard(rule_pos) == \E k \in 1..Len(rule_pos) : rule_pos[k] # <<>>

AndFind(r, seq, st) ==
    LET rule_pos == RulePos(r.rules, seq, st)
    IN  IF AndGuard(rule_pos)
        THEN << <<Min(AllStarts(rule_pos)), Max(AllEnds(rule_pos))>> >>
        ELSE <<>>

OrFind(r, seq, st) ==
    LET rule_pos == RulePos(r.rules, seq, st)
    IN  IF OrGuard(rule_pos)
        THEN << <<Min(AllStarts(rule_pos)), Max(AllEnds(rule_pos))>> >>
        ELSE <<>>

(***************************************************************************)
(* Not.find_positions.                                                      *)
(***************************************************************************)
\* Not that forgets the offset in the range it yields
NotFind_NoOffset(r, seq, st) ==
    IF find_positions(r.rule, seq, st) # <<>>
    THEN <<>>
    ELSE << <<0, Len(seq) - 1>> >>

NotFind(r, seq, st) ==
    IF find_positions(r.rule, seq, st) # <<>>
    THEN <<>>
    ELSE << <<st, Len(seq) + st - 1>> >>

(***************************************************************************)
(* Intersect.find_positions.                                                *)
(***************************************************************************)
\* the loop over one tuple without the break on pos[0] > maximum
RECURSIVE IntersectNarrow_NoUpperBreak(_, _, _, _)
IntersectNarrow_NoUpperBreak(tuple, k, minimum, maximum) ==
    IF k > Len(tuple) THEN << <<minimum, maximum>> >>
    ELSE IF tuple[k][2] < minimum THEN <<>>
    ELSE IntersectNarrow_NoUpperBreak(tuple, k + 1,
             Max({minimum, tuple[k][1]}), Min({maximum, tuple[k][2]}))

\* the loop over one tuple of the product: <<>> on a break, else the range
RECURSIVE IntersectNarrow(_, _, _, _)
IntersectNarrow(tuple, k, minimum, maximum) ==
    IF k > Len(tuple) THEN << <<minimum, maximum>> >>
    ELSE IF tuple[k][2] < minimum THEN <<>>
    ELSE IF tuple[k][1] > maximum THEN <<>>
    ELSE IntersectNarrow(tuple, k + 1,
                         Max({minimum, tuple[k][1]}), Min({maximum, tuple[k][2]}))

IntersectFind(r, seq, st) ==
    LET prod == Product(RulePos(r.rules, seq, st))
    IN  Concat([k \in 1..Len(prod) |->
                   IntersectNarrow(prod[k], 1, st, Len(seq) + st)])

(***************************************************************************)
(* First.find_positions / Last.find_positions.                              *)
(***************************************************************************)
\* First that compares with index 0 instead of the offset
FirstKeeps_NoOffset(pos, seq, st) == pos[1] = 0

FirstKeeps(pos, seq, st) == pos[1] = st

LastKeeps(pos, seq, st) == pos[2] = Len(seq) + st - 1

FirstFind(r, seq, st) ==
    LET keep(pos) == FirstKeeps(pos, seq, st)
    IN  SelectSeq(find_positions(r.rule, seq, st), keep)

LastFind(r, seq, st) ==
    LET keep(pos) == LastKeeps(pos, seq, st)
    IN  SelectSeq(find_positions(r.rule, seq, st), keep)

(***************************************************************************)
(* Rule.find_positions, dispatched on the class of the rule.                *)
(***************************************************************************)
find_positions(r, seq, st) ==
    CASE r.type = "Has" -> HasFind(r, seq, st)
      [] r.type = "Slice" -> SliceFind(r, seq, st)
      [] r.type = "Sequence" -> SequenceFind(r, seq, st)
      [] r.type = "And" -> AndFind(r, seq, st)
      [] r.type = "Or" -> OrFind(r, seq, st)
      [] r.type = "Not" -> NotFind(r, seq, st)
      [] r.type = "Intersect" -> IntersectFind(r, seq, st)
      [] r.type = "First" -> FirstFind(r, seq, st)
      [] r.type = "Last" -> LastFind(r, seq, st)

(***************************************************************************)
(* __repr__, __eq__ and __hash__ of the Rule classes.  A text is a sequence *)
(* of characters; the elements of the model are one character long.         *)
(***************************************************************************)
\* the text that stands for a repr that raised ValueError
ReprError == <<"ValueError">>

\* "".join(parts), raising when building a part raised
Cat(parts) ==
    IF \E k \in 1..Len(parts) : parts[k] = ReprError
    THEN ReprError
    ELSE Concat(parts)

RECURSIVE Repr(_)

\* _show(rules, sep): unpacking "first, *rest" of an empty list raises
RECURSIVE Show(_, _)
Show(rs, sep) ==
    IF rs = <<>> THEN ReprError
    ELSE LET rest == Tail(rs)
         IN  IF Len(rest) = 1
             THEN Cat(<<Repr(Head(rs)), sep, Repr(rest[1])>>)
             ELSE Cat(<<Repr(Head(rs)), sep, <<"(">>, Show(rest, sep), <<")">>>>)

\* " ".join(reprs)
RECURSIVE JoinSpace(_)
JoinSpace(rs) ==
    IF rs = <<>> THEN <<>>
    ELSE IF Len(rs) = 1 THEN Repr(rs[1])
    ELSE Cat(<<Repr(rs[1]), <<" ">>, JoinSpace(Tail(rs))>>)

\* f" {rule!r}" for each sub-rule of a Slice
RECURSIVE SubReprs(_)
SubReprs(rs) ==
    IF rs = <<>> THEN <<>>
    ELSE Cat(<<<<" ">>, Repr(Head(rs)), SubReprs(Tail(rs))>>)

Repr(r) ==
    CASE r.type = "Has" -> <<r.element>>
      [] r.type = "Slice" ->
            Cat(<<IF r.open_first # 0 THEN <<"{">> ELSE <<"[">>,
                  <<r.element>>,
                  SubReprs(r.subrules),
                  IF r.open_last # 0 THEN <<"}">> ELSE <<"]">>>>)
      [] r.type = "Sequence" ->
            Show(r.rules, IF r.same THEN <<" ", "=", ">", " ">>
                                    ELSE <<" ", "-", ">", " ">>)
      [] r.type = "And" -> Cat(<<<<"(">>, JoinSpace(r.rules), <<")">>>>)
      [] r.type = "Or" -> Show(r.rules, <<" ", "|", " ">>)
      [] r.type = "Not" -> Cat(<<<<"~">>, Repr(r.rule)>>)
      [] r.type = "Intersect" -> Show(r.rules, <<" ", "&", " ">>)
      [] r.type = "First" -> Cat(<<<<"^">>, Repr(r.rule)>>)
      [] r.type = "Last" -> Cat(<<<<"$">>, Repr(r.rule)>>)

\* the classes of operators.py
RuleTypes ==
    {"Has", "Slice", "Sequence", "And", "Or", "Not", "Intersect", "First", "Last"}

\* the code point of a character
Ord(c) ==
    CASE c = " " -> 32 [] c = "$" -> 36 [] c = "&" -> 38 [] c = "(" -> 40
      [] c = ")" -> 41 [] c = "-" -> 45 [] c = "=" -> 61 [] c = ">" -> 62
      [] c = "A" -> 65 [] c = "B" -> 66 [] c = "C" -> 67
      [] c = "[" -> 91 [] c = "]" -> 93 [] c = "^" -> 94
      [] c = "{" -> 123 [] c = "|" -> 124 [] c = "}" -> 125 [] c = "~" -> 126

\* hash(text): a function of the characters of the text alone
RECURSIVE HashText(_, _)
HashText(chars, h) ==
    IF chars = <<>> THEN h
    ELSE HashText(Tail(chars), (h * 31 + Ord(Head(chars))) % 65521)

\* __hash__: hash(repr(self)); -1 stands for the ValueError of the repr
Hash(r) == IF Repr(r) = ReprError THEN -1 ELSE HashText(Repr(r), 7)

RECURSIVE RuleEq(_, _)

\* == of two lists or tuples of rules
RulesEq(xs, ys) ==
    /\ Len(xs) = Len(ys)
    /\ \A k \in 1..Len(xs) : RuleEq(xs[k], ys[k])

\* __eq__: the same class and equal fields
RuleEq(a, b) ==
    CASE a.type = "Has" -> b.type = "Has" /\ a.element = b.element
      [] a.type = "Slice" ->
            /\ b.type = "Slice"
            /\ a.element = b.element
            /\ RulesEq(a.subrules, b.subrules)
            /\ a.open_first = b.open_first
            /\ a.open_last = b.open_last
      [] a.type = "Sequence" ->
            b.type = "Sequence" /\ RulesEq(a.rules, b.rules) /\ a.same = b.same
      [] a.type = "And" -> b.type = "And" /\ RulesEq(a.rules, b.rules)
      [] a.type = "Or" -> b.type = "Or" /\ RulesEq(a.rules, b.rules)
      [] a.type = "Not" -> b.type = "Not" /\ RuleEq(a.rule, b.rule)
      [] a.type = "Intersect" -> b.type = "Intersect" /\ RulesEq(a.rules, b.rules)
      [] a.type = "First" -> b.type = "First" /\ RuleEq(a.rule, b.rule)
      [] a.type = "Last" -> b.type = "Last" /\ RuleEq(a.rule, b.rule)

(***************************************************************************)
(* parser.py.  A token list holds strings and rules: a string token is the  *)
(* record Tok(s), a rule token is the rule itself.  A raised exception is a *)
(* record of its class and message.                                         *)
(***************************************************************************)
Tok(s) == [type |-> "str", s |-> s]

ValueError(msg) == [type |-> "ValueError", msg |-> msg]

IndexError == [type |-> "IndexError"]

Raised(x) == x.type \in {"ValueError", "IndexError"}

\* index_of that finds the last position of the string
index_of_Last(list_obj, value) ==
    LET hits == {k \in 1..Len(list_obj) : list_obj[k] = Tok(value)}
    IN  IF hits = {} THEN -1 ELSE Max(hits) - 1

\* index_of(list_obj, value): the first position of the string, or -1
index_of(list_obj, value) ==
    LET hits == {k \in 1..Len(list_obj) : list_obj[k] = Tok(value)}
    IN  IF hits = {} THEN -1 ELSE Min(hits) - 1

\* stack.pop()(token): the class popped, applied to the token
Construct(class, token) ==
    CASE class = "First" -> First(token)
      [] class = "Last" -> Last(token)
      [] class = "Not" -> Not(token)

\* the unwinding that takes the classes from the bottom of the stack
RECURSIVE Unwind_Fifo(_, _)
Unwind_Fifo(stack, token) ==
    IF stack = <<>> THEN token
    ELSE Unwind_Fifo(Tail(stack), Construct(Head(stack), token))

\* while stack: token = stack.pop()(token)
RECURSIVE Unwind(_, _)
Unwind(stack, token) ==
    IF stack = <<>> THEN token
    ELSE Unwind(SubSeq(stack, 1, Len(stack) - 1),
                Construct(stack[Len(stack)], token))

\* the loop of transform_token_list and what follows it
RECURSIVE TransformLoop(_, _, _, _)
TransformLoop(toks, k, stack, new_tokens) ==
    IF k > Len(toks)
    THEN IF stack # <<>>
         THEN ValueError("Invalid syntax: invalid operator position")
         ELSE IF Len(new_tokens) > 1 THEN And(new_tokens)
         ELSE IF Len(new_tokens) = 1 THEN new_tokens[1]
         ELSE IndexError
    ELSE LET token == toks[k]
         IN  IF token = Tok("^") THEN TransformLoop(toks, k + 1, Append(stack, "First"), new_tokens)
             ELSE IF token = Tok("$") THEN TransformLoop(toks, k + 1, Append(stack, "Last"), new_tokens)
             ELSE IF token = Tok("~") THEN TransformLoop(toks, k + 1, Append(stack, "Not"), new_tokens)
             ELSE TransformLoop(toks, k + 1, <<>>,
                      Append(new_tokens,
                             Unwind(stack, IF token.type = "str" THEN Has(token.s)
                                           ELSE token)))

transform_token_list(toks) == TransformLoop(toks, 1, <<>>, <<>>)

\* the rule built from both operands, or what the first failing one raised
Combine(left, right, result) ==
    IF Raised(left) THEN left ELSE IF Raised(right) THEN right ELSE result

RECURSIVE to_rule(_)
to_rule(toks) ==
    IF toks = <<>> THEN ValueError("Invalid syntax: operator split mismatch")
    ELSE LET before(pos) == to_rule(SubSeq(toks, 1, pos))
             after(pos) == to_rule(SubSeq(toks, pos + 2, Len(toks)))
             arrow == index_of(toks, "->")
             same == index_of(toks, "=>")
             bar == index_of(toks, "|")
             amp == index_of(toks, "&")
         IN  IF arrow # -1
             THEN Combine(before(arrow), after(arrow),
                          Sequence(<<before(arrow), after(arrow)>>, FALSE))
             ELSE IF same # -1
             THEN Combine(before(same), after(same),
                          Sequence(<<before(same), after(same)>>, TRUE))
             ELSE IF bar # -1
             THEN Combine(before(bar), after(bar), Or(<<before(bar), after(bar)>>))
             ELSE IF amp # -1
             THEN Combine(before(amp), after(amp),
                          Intersect(<<before(amp), after(amp)>>))
             ELSE transform_token_list(toks)

\* "".join(chars)
RECURSIVE Join(_)
Join(chars) == IF chars = <<>> THEN "" ELSE Head(chars) \o Join(Tail(chars))

\* s in "...": s is a substring of the literal, given by its characters
In(s, literal) ==
    \/ s = ""
    \/ \E i \in 1..Len(literal) : \E j \in i..Len(literal) :
          s = Join(SubSeq(literal, i, j))

\* tokens.append("".join(current)) under "if current:"
Flush(toks, current) ==
    IF current # <<>> THEN Append(toks, Join(current)) ELSE toks

\* the loop of tokenize and the flush that follows it
RECURSIVE TokenizeLoop(_, _, _, _)
TokenizeLoop(txt, k, toks, current) ==
    IF k > Len(txt) THEN Flush(toks, current)
    ELSE LET letter == txt[k]
         IN  IF In(letter, <<"{", "[", "(", ")", "]", "}", "|", "&", "^", "$", "~">>)
             THEN TokenizeLoop(txt, k + 1, Append(Flush(toks, current), letter), <<>>)
             ELSE IF In(letter, <<"-", "=">>)
             THEN TokenizeLoop(txt, k + 1, Flush(toks, current), <<letter>>)
             ELSE IF letter = ">"
             THEN TokenizeLoop(txt, k + 1,
                               Append(toks, Join(Append(current, letter))), <<>>)
             ELSE IF letter = " "
             THEN TokenizeLoop(txt, k + 1, Flush(toks, current), <<>>)
             ELSE TokenizeLoop(txt, k + 1, toks, Append(current, letter))

tokenize(txt) == TokenizeLoop(txt, 1, <<>>, <<>>)

\* the closing branch that takes any string as the element of a slice
CloseBracket_AnyElement(temp, token) ==
    IF temp[1].type = "str" /\ In(temp[1].s, <<"{", "[">>)
    THEN IF Len(temp) < 2 THEN IndexError
         ELSE IF temp[2].type # "str"
         THEN ValueError("Invalid syntax: operator not supported as first element of slice")
         ELSE LET result == Slice(temp[2].s, temp[1] = Tok("{"), token = "}")
                  rest == SubSeq(temp, 3, Len(temp))
                  inner == to_rule(rest)
              IN  IF rest = <<>> THEN result
                  ELSE IF Raised(inner) THEN inner
                  ELSE Lshift(result, inner)
    ELSE to_rule(Tail(temp))

\* the branch of parse that closes a bracket: the rule built from the popped
\* list temp, or what building it raised
CloseBracket(temp, token) ==
    IF temp[1].type = "str" /\ In(temp[1].s, <<"{", "[">>)
    THEN IF Len(temp) < 2 THEN IndexError
         ELSE IF \/ temp[2].type # "str"
                 \/ In(temp[2].s, <<"|", "&", "^", "$", "~", "-", ">", "=", ">">>)
         THEN ValueError("Invalid syntax: operator not supported as first element of slice")
         ELSE LET result == Slice(temp[2].s, temp[1] = Tok("{"), token = "}")
                  rest == SubSeq(temp, 3, Len(temp))
                  inner == to_rule(rest)
              IN  IF rest = <<>> THEN result
                  ELSE IF Raised(inner) THEN inner
                  ELSE Lshift(result, inner)
    ELSE to_rule(Tail(temp))

\* the loop of parse over the tokens and what follows it
RECURSIVE ParseLoop(_, _, _)
ParseLoop(toks, k, stack) ==
    IF k > Len(toks)
    THEN IF Len(stack) # 1
         THEN ValueError("Invalid syntax: unclosed group/slice")
         ELSE to_rule(stack[Len(stack)])
    ELSE LET token == toks[k]
             top == Len(stack)
         IN  IF In(token, <<"(", "{", "[">>)
             THEN ParseLoop(toks, k + 1, Append(stack, <<Tok(token)>>))
             ELSE IF In(token, <<")", "}", "]">>)
             THEN IF top = 1
                  THEN ValueError("Invalid syntax: extra " \o token \o " found")
                  ELSE LET result == CloseBracket(stack[top], token)
                           below == SubSeq(stack, 1, top - 1)
                       IN  IF Raised(result) THEN result
                           ELSE ParseLoop(toks, k + 1,
                                    [below EXCEPT ![top - 1] = Append(@, result)])
             ELSE ParseLoop(toks, k + 1,
                            [stack EXCEPT ![top] = Append(@, Tok(token))])

parse(txt) == ParseLoop(tokenize(txt), 1, <<<<>>>>)

(***************************************************************************)
(* The rules and traces the matching session is run on.                     *)
(***************************************************************************)
Itemsets == SUBSET Elements

Traces == UNION {[1..n -> Itemsets] : n \in 0..MaxLen}

Offsets == {0, 2}

Atoms == {Has(e) : e \in Elements} \cup {Slice(e, FALSE, FALSE) : e \in Elements}

Wrapped == {Not(r) : r \in Atoms} \cup {First(r) : r \in Atoms}
               \cup {Last(r) : r \in Atoms}

SliceShapes == {Slice("A", of, ol) : of \in BOOLEAN, ol \in BOOLEAN}

Guards == {Has("B"), Not(Has("B")), First(Has("B")), Last(Has("B"))}

Slices ==
    SliceShapes
        \cup {Lshift(s, x) : s \in SliceShapes, x \in Atoms \cup Wrapped}
        \cup {Lshift(Lshift(s, x), y) : s \in SliceShapes, x \in Guards, y \in Guards}

Operands ==
    {<<x>> : x \in Atoms} \cup {<<x, y>> : x \in Atoms, y \in Atoms}
        \cup {<<x, y, z>> : x \in {Has("A"), Slice("A", FALSE, FALSE)},
                            y \in {Has("B"), Slice("B", FALSE, FALSE)},
                            z \in {Has("A"), Has("B")}}
        \cup {<<Not(Has("A")), Has("B")>>, <<Has("A"), Not(Has("B"))>>,
              <<Not(Has("A")), Not(Has("B"))>>}

Combined ==
    {Sequence(rs, same) : rs \in Operands, same \in BOOLEAN}
        \cup {And(rs) : rs \in Operands} \cup {Or(rs) : rs \in Operands}
        \cup {Intersect(rs) : rs \in Operands}

Pairs == {<<Has("A"), Has("B")>>, <<Slice("A", FALSE, FALSE), Has("B")>>}

Nested ==
    LET inner == {Sequence(rs, same) : rs \in Pairs, same \in BOOLEAN}
                     \cup {And(rs) : rs \in Pairs} \cup {Or(rs) : rs \in Pairs}
                     \cup {Intersect(rs) : rs \in Pairs}
    IN  {Not(r) : r \in inner} \cup {First(r) : r \in inner}
            \cup {Last(r) : r \in inner}
            \cup {Lshift(s, r) : s \in SliceShapes, r \in inner}

Deep ==
    LET left == {Lshift(Slice("A", FALSE, FALSE), Has("B")), Not(Has("B")),
                 First(Slice("A", FALSE, FALSE)), Or(<<Has("A"), Has("B")>>)}
        sub == {Lshift(Slice("B", of, ol), x) :
                    of \in BOOLEAN, ol \in BOOLEAN, x \in {Has("A"), Not(Has("A"))}}
    IN  {Not(r) : r \in Wrapped} \cup {First(r) : r \in Wrapped}
            \cup {Last(r) : r \in Wrapped}
            \cup {Lshift(Slice("A", FALSE, FALSE), r) : r \in sub}
            \cup {Sequence(<<x, y>>, same) : x \in left, y \in Atoms, same \in BOOLEAN}
            \cup {And(<<x, y>>) : x \in left, y \in Atoms}
            \cup {Or(<<x, y>>) : x \in left, y \in Atoms}
            \cup {Intersect(<<x, y>>) : x \in left, y \in Atoms}

Rules == Atoms \cup Wrapped \cup Slices \cup Combined \cup Nested \cup Deep

(***************************************************************************)
(* The matching session: a rule is evaluated on a trace.                    *)
(***************************************************************************)
NoRule == [type |-> "None"]

NoMatching ==
    /\ sequence = <<>>
    /\ start = 0
    /\ positions = <<>>
    /\ checked = FALSE

NoComparison ==
    /\ other = NoRule
    /\ reprs = <<>>
    /\ equal = FALSE
    /\ hashes = <<>>

NoParsing ==
    /\ tokens = <<>>
    /\ parsed = NoRule

NoText ==
    /\ text = <<>>
    /\ words = <<>>
    /\ tree = NoRule
    /\ reparsed = NoRule

NoVisit ==
    /\ replaces = <<>>
    /\ visited = NoRule

NoBinding ==
    /\ variables = <<>>
    /\ all_names = {}
    /\ unique = TRUE
    /\ rules = <<>>
    /\ sequence_names = {}
    /\ all_bindings = <<>>
    /\ considered = <<>>
    /\ yielded = <<>>
    /\ enacted = <<>>
    /\ backref = <<>>
    /\ forwardref = <<>>

NoMining ==
    /\ sequences = <<>>
    /\ rule_result = <<>>
    /\ splits = <<>>
    /\ mined = NoRule

NoInstrumenting ==
    /\ trace = <<>>
    /\ prefixes = <<>>
    /\ newsequence = <<>>
    /\ trace_names = {}

NoExtracting ==
    /\ new_sequences = <<>>
    /\ processed = 0
    /\ working = {}
    /\ rewrites = <<>>
    /\ patterns = <<>>
    /\ shuffled = <<>>

Init ==
    /\ pc = "ready"
    /\ rule \in Rules
    /\ sequence \in Traces
    /\ start \in Offsets
    /\ positions = <<>>
    /\ checked = FALSE
    /\ NoComparison
    /\ NoParsing
    /\ NoText
    /\ NoVisit
    /\ NoBinding
    /\ NoMining
    /\ NoInstrumenting
    /\ NoExtracting

\* list(rule.find_positions(sequence, start))
FindPositions ==
    /\ pc = "ready"
    /\ positions' = find_positions(rule, sequence, start)
    /\ pc' = "found"
    /\ UNCHANGED <<rule, sequence, start, checked, eqVars, parseVars, textVars, visitVars, bindVars, mineVars, inoutVars, extractVars>>

\* rule.check(sequence)
Check ==
    /\ pc = "found"
    /\ start = 0
    /\ checked' = check(rule, sequence)
    /\ pc' = "checked"
    /\ UNCHANGED <<rule, sequence, start, positions, eqVars, parseVars, textVars, visitVars, bindVars, mineVars, inoutVars, extractVars>>

Next == FindPositions \/ Check

Spec == Init /\ [][Next]_vars

(***************************************************************************)
(* Claims about the rule algebra.  Each is stated from the trace alone,     *)
(* not through the loop that computes it.                                   *)
(***************************************************************************)
Found == pc \in {"found", "checked"}

Ranges == {positions[k] : k \in 1..Len(positions)}

\* the matches of the sub-rules of the rule under evaluation
SubMatches == [k \in 1..Len(rule.rules) |-> find_positions(rule.rules[k], sequence, start)]

\* the matches of the operand of a Not, First or Last
InnerMatches == find_positions(rule.rule, sequence, start)

\* C1: r.check(t) is true iff r.find_positions(t) yields at least one
\* position-range, for every rule variant and nesting.
C1_CheckIffFound ==
    pc = "checked" => (checked <=> Len(positions) >= 1)

C1_Witness ==
    /\ pc = "checked"
    /\ checked
    /\ rule.type = "Slice"
    /\ Len(rule.subrules) = 2
    /\ Len(positions) >= 1

\* the maximal contiguous runs <<s, t>> (1-based) of itemsets holding e
MaximalRuns(e, seq) ==
    {run \in (1..Len(seq)) \X (1..Len(seq)) :
        /\ run[1] <= run[2]
        /\ \A i \in run[1]..run[2] : e \in seq[i]
        /\ run[1] = 1 \/ e \notin seq[run[1] - 1]
        /\ run[2] = Len(seq) \/ e \notin seq[run[2] + 1]}

\* the run's sub-trace without its first itemset when open_first and without
\* its last itemset when open_last
Trimmed(r, seq, run) == SubSeq(seq, run[1] + r.open_first, run[2] - r.open_last)

AcceptedRuns(r, seq) ==
    {run \in MaximalRuns(r.element, seq) :
        \A k \in 1..Len(r.subrules) : check(r.subrules[k], Trimmed(r, seq, run))}

\* C3: a Slice yields, in trace order, exactly the maximal runs of its element
\* on which every sub-rule checks true on the trimmed run; the range yielded
\* is the whole run; without sub-rules every maximal run is yielded.
C3_SliceRuns ==
    (Found /\ rule.type = "Slice") =>
        /\ Ranges = {<<run[1] - 1 + start, run[2] - 1 + start>> :
                        run \in AcceptedRuns(rule, sequence)}
        /\ \A k \in 1..(Len(positions) - 1) : positions[k][2] < positions[k + 1][1]
        /\ rule.subrules = <<>> =>
               Len(positions) = Cardinality(MaximalRuns(rule.element, sequence))

C3_Witness ==
    /\ Found
    /\ rule = Lshift(Slice("A", TRUE, TRUE), Has("B"))
    /\ Len(sequence) = 3
    /\ positions = << <<start, start + 2>> >>

\* the number of tuples of the product of the lists ms[from..]
RECURSIVE Weight(_, _)
Weight(ms, from) ==
    IF from > Len(ms) THEN 1 ELSE Len(ms[from]) * Weight(ms, from + 1)

\* tuple number t (0-based, product order) of the product of the lists ms
TupleAt(ms, t) ==
    [k \in 1..Len(ms) |-> ms[k][((t \div Weight(ms, k + 1)) % Len(ms[k])) + 1]]

TupleNumbers(ms) == 0..(Weight(ms, 1) - 1)

Ordered(tuple, same) ==
    \A k \in 1..(Len(tuple) - 1) :
        IF same THEN tuple[k][2] <= tuple[k + 1][1]
                ELSE tuple[k][2] < tuple[k + 1][1]

\* the positions are images[t] for the tuple numbers t in "kept", in
\* increasing order of t
YieldsInOrder(kept, images) ==
    /\ Len(positions) = Cardinality(kept)
    /\ \A t \in kept :
           positions[Cardinality({u \in kept : u <= t})] = images[t]

\* C4: a Sequence yields (first.start, last.end) once per tuple of the product
\* of its sub-rules' matches, in product order, whose consecutive ranges obey
\* end < start (end <= start when same), and nothing for any other tuple.
C4_SequenceTuples ==
    /\ (Found /\ rule.type = "Sequence") =>
           LET ms == SubMatches
               kept == {t \in TupleNumbers(ms) : Ordered(TupleAt(ms, t), rule.same)}
               images == [t \in TupleNumbers(ms) |->
                             <<TupleAt(ms, t)[1][1], TupleAt(ms, t)[Len(ms)][2]>>]
           IN  YieldsInOrder(kept, images)
    /\ (Found /\ rule = Sequence(<<Has("A"), Has("B")>>, FALSE)
            /\ sequence = <<{"B"}, {"A"}>>) => positions = <<>>
    /\ (Found /\ rule = Sequence(<<Has("A"), Has("B")>>, TRUE)
            /\ sequence = <<{"A", "B"}>> /\ start = 0) => positions = << <<0, 0>> >>

C4_Witness ==
    /\ Found
    /\ rule.type = "Sequence"
    /\ rule.same
    /\ Len(rule.rules) = 3
    /\ Len(positions) >= 2
    /\ Len(positions) < Weight(SubMatches, 1)
    /\ \E k \in 1..Len(positions) : positions[k][1] = positions[k][2]

\* C5: And and Or yield at most one range: And iff every sub-rule matches, Or
\* iff some sub-rule matches; the range is [least start, greatest end] over
\* all matches of all sub-rules.
C5_AndOrExistence ==
    (Found /\ rule.type \in {"And", "Or"}) =>
        LET ms == SubMatches
            all == UNION {{ms[k][j] : j \in 1..Len(ms[k])} : k \in 1..Len(ms)}
            due == IF rule.type = "And"
                   THEN \A k \in 1..Len(ms) : Len(ms[k]) >= 1
                   ELSE \E k \in 1..Len(ms) : Len(ms[k]) >= 1
        IN  /\ Len(positions) <= 1
            /\ Len(positions) = 1 <=> due
            /\ Len(positions) = 1 =>
                   /\ \E m \in all : m[1] = positions[1][1]
                   /\ \E m \in all : m[2] = positions[1][2]
                   /\ \A m \in all : positions[1][1] <= m[1] /\ m[2] <= positions[1][2]

C5_Witness ==
    /\ Found
    /\ rule.type = "And"
    /\ Len(rule.rules) = 2
    /\ Len(SubMatches[1]) = 2
    /\ Len(SubMatches[2]) = 2
    /\ positions = << <<start, start + 2>> >>

\* C6: Not(r) yields exactly the full trace range (offset, offset+len-1) iff
\* r has no match on the trace, and nothing when r has a match.
C6_NotFullRange ==
    /\ (Found /\ rule.type = "Not") =>
           IF Len(InnerMatches) = 0
           THEN positions = << <<start, start + Len(sequence) - 1>> >>
           ELSE positions = <<>>
    /\ (Found /\ rule = Not(Has("A")) /\ sequence = <<{"B"}>> /\ start = 0) =>
           positions = << <<0, 0>> >>

C6_Witness ==
    /\ Found
    /\ rule.type = "Not"
    /\ rule.rule.type = "Sequence"
    /\ start = 2
    /\ Len(sequence) = 3
    /\ positions = << <<2, 4>> >>

\* C7: Intersect yields, per tuple of the product of its sub-rules' matches,
\* [max of the starts, min of the ends] iff max start <= min end, and nothing
\* for the tuple otherwise.
C7_IntersectTuples ==
    (Found /\ rule.type = "Intersect") =>
        LET ms == SubMatches
            lo(tuple) == Max({tuple[k][1] : k \in 1..Len(tuple)})
            hi(tuple) == Min({tuple[k][2] : k \in 1..Len(tuple)})
            kept == {t \in TupleNumbers(ms) : lo(TupleAt(ms, t)) <= hi(TupleAt(ms, t))}
            images == [t \in TupleNumbers(ms) |->
                          <<lo(TupleAt(ms, t)), hi(TupleAt(ms, t))>>]
        IN  YieldsInOrder(kept, images)

C7_Witness ==
    /\ Found
    /\ rule.type = "Intersect"
    /\ Len(rule.rules) = 2
    /\ Len(positions) = 2
    /\ Len(positions) < Weight(SubMatches, 1)
    /\ \A k \in 1..Len(rule.rules) : Len(SubMatches[k]) >= 1
    /\ \E k \in 1..Len(rule.rules) : positions[1] \notin {SubMatches[k][j] : j \in 1..Len(SubMatches[k])}

\* C8: First(r) yields the matches of r that start at the start of the window,
\* Last(r) those that end at its last index; inside a Slice the window is the
\* trimmed run, not the whole trace.
C8_FirstLastWindow ==
    /\ (Found /\ rule.type = "First") =>
           LET atStart(m) == m[1] = start
           IN  positions = SelectSeq(InnerMatches, atStart)
    /\ (Found /\ rule.type = "Last") =>
           LET atEnd(m) == m[2] = start + Len(sequence) - 1
           IN  positions = SelectSeq(InnerMatches, atEnd)
    /\ (Found /\ rule.type = "Slice" /\ rule.subrules = <<First(Has("B"))>>) =>
           \A run \in MaximalRuns(rule.element, sequence) :
               <<run[1] - 1 + start, run[2] - 1 + start>> \in Ranges
                   <=> /\ Trimmed(rule, sequence, run) # <<>>
                       /\ "B" \in sequence[run[1] + rule.open_first]
    /\ (Found /\ rule.type = "Slice" /\ rule.subrules = <<Last(Has("B"))>>) =>
           \A run \in MaximalRuns(rule.element, sequence) :
               <<run[1] - 1 + start, run[2] - 1 + start>> \in Ranges
                   <=> /\ Trimmed(rule, sequence, run) # <<>>
                       /\ "B" \in sequence[run[2] - rule.open_last]

C8_Witness ==
    /\ Found
    /\ rule = Lshift(Slice("A", TRUE, FALSE), First(Has("B")))
    /\ Len(sequence) = 3
    /\ "B" \notin sequence[1]
    /\ "B" \notin sequence[3]
    /\ positions = << <<start, start + 2>> >>

(***************************************************************************)
(* The comparison session: two rules are built independently, rendered,     *)
(* compared and hashed, as a dict or set does with its keys.                *)
(***************************************************************************)
Small == {Has(e) : e \in Elements}

EqMid ==
    Small \cup {Or(<<x, y>>) : x \in Small, y \in Small}
          \cup {Sequence(<<x, y>>, FALSE) : x \in Small, y \in Small}
          \cup {And(<<Has("A"), Has("B")>>), Intersect(<<Has("A"), Has("B")>>)}

EqRules ==
    {Or(<<x, y>>) : x \in EqMid, y \in EqMid}
        \cup {Sequence(<<x, y>>, FALSE) : x \in EqMid, y \in EqMid}
        \cup {Sequence(<<x, y>>, TRUE) : x \in Small, y \in Small}
        \cup {Intersect(<<x, y>>) : x \in Small, y \in Small}
        \cup {Not(x) : x \in Small} \cup {First(x) : x \in Small}
        \cup {Last(x) : x \in Small}
        \cup {Slice("A", of, ol) : of \in BOOLEAN, ol \in BOOLEAN}
        \cup {Lshift(Slice("A", FALSE, FALSE), x) : x \in EqMid}
        \cup {Lshift(Lshift(Slice("A", FALSE, FALSE), Has("B")), Has("A")),
              Or(<<Has("A"), Has("B"), Has("A")>>), And(<<Has("A"), Has("B"), Has("A")>>),
              Or(<<Has("A")>>)}
        \cup Small

InitEq ==
    /\ pc = "built"
    /\ rule \in EqRules
    /\ other \in EqRules
    /\ reprs = <<>>
    /\ equal = FALSE
    /\ hashes = <<>>
    /\ NoMatching
    /\ NoParsing
    /\ NoText
    /\ NoVisit
    /\ NoBinding
    /\ NoMining
    /\ NoInstrumenting
    /\ NoExtracting

\* repr(rule), repr(other)
Render ==
    /\ pc = "built"
    /\ reprs' = <<Repr(rule), Repr(other)>>
    /\ pc' = "shown"
    /\ UNCHANGED <<matchVars, other, equal, hashes, parseVars, textVars, visitVars, bindVars, mineVars, inoutVars, extractVars>>

\* rule == other
Compare ==
    /\ pc = "shown"
    /\ equal' = RuleEq(rule, other)
    /\ pc' = "compared"
    /\ UNCHANGED <<matchVars, other, reprs, hashes, parseVars, textVars, visitVars, bindVars, mineVars, inoutVars, extractVars>>

\* hash(rule), hash(other)
HashBoth ==
    /\ pc = "compared"
    /\ hashes' = <<Hash(rule), Hash(other)>>
    /\ pc' = "hashed"
    /\ UNCHANGED <<matchVars, other, reprs, equal, parseVars, textVars, visitVars, bindVars, mineVars, inoutVars, extractVars>>

NextEq == Render \/ Compare \/ HashBoth

SpecEq == InitEq /\ [][NextEq]_vars

\* C2: two rule trees whose canonical text (repr) is identical compare equal
\* with == and have the same hash, so either can stand for the other as a key.
C2_SameTextSameKey ==
    (pc = "hashed" /\ reprs[1] # ReprError /\ reprs[1] = reprs[2]) =>
        equal /\ hashes[1] = hashes[2]

(***************************************************************************)
(* The parsing session: a token list, as parse hands it over once the       *)
(* brackets are resolved, is combined into a rule.                          *)
(***************************************************************************)
MaxTokens == 5

BinaryGlyphs == {"->", "=>", "|", "&"}

UnaryGlyphs == {"^", "$", "~"}

Alphabet ==
    {Tok(s) : s \in Elements \cup BinaryGlyphs \cup UnaryGlyphs}
        \cup {Slice("A", FALSE, FALSE)}

\* token lists of the parser's tests, longer than MaxTokens or over more elements
Examples ==
    {<<Tok("A"), Tok("|"), Tok("B"), Tok("|"), Tok("C")>>,
     <<Tok("A"), Tok("&"), Tok("B"), Tok("|"), Tok("C")>>,
     <<Tok("A"), Tok("->"), Tok("B"), Tok("=>"), Tok("C")>>,
     <<Tok("A"), Tok("B"), Tok("C")>>,
     <<Tok("A"), Tok("|"), Tok("B"), Tok("|"), Tok("C"), Tok("|"), Tok("D")>>,
     <<Tok("A"), Tok("|"), Tok("B"), Tok("|"), Tok("~"), Tok("C"), Tok("|"), Tok("D")>>,
     <<Tok("A"), Tok("|"), Tok("B"), Tok("E"), Tok("|"), Tok("~"), Tok("C"), Tok("|"), Tok("D")>>,
     <<Tok("A"), Tok("=>"), Tok("B"), Tok("&"), Tok("C"), Tok("->"), Tok("~"), Tok("D"), Tok("|"), Tok("E")>>}

HasBinary(toks) == \E k \in 1..Len(toks) : toks[k] \in {Tok(g) : g \in BinaryGlyphs}

InitParse ==
    /\ pc = "tokens"
    /\ \/ tokens \in Examples
       \/ \E n \in 0..MaxTokens : tokens \in [1..n -> Alphabet]
    /\ parsed = NoRule
    /\ rule = NoRule
    /\ NoMatching
    /\ NoComparison
    /\ NoText
    /\ NoVisit
    /\ NoBinding
    /\ NoMining
    /\ NoInstrumenting
    /\ NoExtracting

\* to_rule(tokens)
ToRule ==
    /\ pc = "tokens"
    /\ parsed' = to_rule(tokens)
    /\ pc' = "combined"
    /\ UNCHANGED <<matchVars, eqVars, tokens, textVars, visitVars, bindVars, mineVars, inoutVars, extractVars>>

\* transform_token_list(tokens), which to_rule calls once no binary operator
\* is left
Transform ==
    /\ pc = "tokens"
    /\ tokens # <<>>
    /\ ~HasBinary(tokens)
    /\ parsed' = transform_token_list(tokens)
    /\ pc' = "transformed"
    /\ UNCHANGED <<matchVars, eqVars, tokens, textVars, visitVars, bindVars, mineVars, inoutVars, extractVars>>

NextParse == ToRule \/ Transform

SpecParse == InitParse /\ [][NextParse]_vars

(***************************************************************************)
(* Claims about the combination of a token list into a rule.                *)
(***************************************************************************)
IsGlyph(token, glyphs) == token \in {Tok(g) : g \in glyphs}

\* the operator to_rule splits at: the lowest-precedence one present
Lowest(toks) ==
    LET present(g) == \E k \in 1..Len(toks) : toks[k] = Tok(g)
    IN  IF present("->") THEN "->"
        ELSE IF present("=>") THEN "=>"
        ELSE IF present("|") THEN "|"
        ELSE "&"

\* the first position of the glyph g in the token list
FirstAt(toks, g) ==
    CHOOSE p \in 1..Len(toks) :
        toks[p] = Tok(g) /\ \A q \in 1..(p - 1) : toks[q] # Tok(g)

\* how tightly the operator at the root of a rule binds
Binding(r) ==
    IF r.type = "Sequence" THEN (IF r.same THEN 2 ELSE 1)
    ELSE IF r.type = "Or" THEN 3
    ELSE IF r.type = "Intersect" THEN 4
    ELSE 5

BindingOf(g) ==
    IF g = "->" THEN 1 ELSE IF g = "=>" THEN 2 ELSE IF g = "|" THEN 3 ELSE 4

\* C9: to_rule splits at the first occurrence of the lowest-precedence
\* operator present ('->', then '=>', then '|', then '&') and recurses on both
\* sides: '&' binds tighter than '|', '|' than '=>', '=>' than '->', a chain of
\* one operator nests to the right, and '&' makes an Intersect.
C9_SplitAtLowestFirst ==
    /\ (pc = "combined" /\ HasBinary(tokens) /\ ~Raised(parsed)) =>
           LET g == Lowest(tokens)
               p == FirstAt(tokens, g)
               left == to_rule(SubSeq(tokens, 1, p - 1))
               right == to_rule(SubSeq(tokens, p + 1, Len(tokens)))
           IN  /\ parsed.type = (IF g \in {"->", "=>"} THEN "Sequence"
                                 ELSE IF g = "|" THEN "Or" ELSE "Intersect")
               /\ parsed.type = "Sequence" => (parsed.same <=> g = "=>")
               /\ parsed.rules = <<left, right>>
               /\ Binding(parsed) = BindingOf(g)
               /\ Binding(left) > BindingOf(g)
               /\ Binding(right) >= BindingOf(g)
    /\ (pc = "combined" /\ tokens = <<Tok("A"), Tok("|"), Tok("B"), Tok("|"), Tok("C")>>) =>
           parsed = Or(<<Has("A"), Or(<<Has("B"), Has("C")>>)>>)
    /\ (pc = "combined" /\ tokens = <<Tok("A"), Tok("&"), Tok("B"), Tok("|"), Tok("C")>>) =>
           parsed = Or(<<Intersect(<<Has("A"), Has("B")>>), Has("C")>>)
    /\ (pc = "combined" /\ tokens = <<Tok("A"), Tok("->"), Tok("B"), Tok("=>"), Tok("C")>>) =>
           parsed = Sequence(<<Has("A"), Sequence(<<Has("B"), Has("C")>>, TRUE)>>, FALSE)

C9_Witness ==
    /\ pc = "combined"
    /\ Len(tokens) = 5
    /\ tokens[2] = Tok("|")
    /\ tokens[4] = Tok("|")
    /\ parsed.type = "Or"
    /\ parsed.rules[1].type = "Has"
    /\ parsed.rules[2].type = "Or"

\* the positions of the tokens that are terms, not prefix glyphs
TermPositions(toks) == {k \in 1..Len(toks) : ~IsGlyph(toks[k], UnaryGlyphs)}

\* the glyphs of the run right before position k, applied to the term at k
\* with the first glyph of the run outermost
RECURSIVE Prefixed(_, _, _)
Prefixed(toks, from, k) ==
    IF from = k
    THEN (IF toks[k].type = "str" THEN Has(toks[k].s) ELSE toks[k])
    ELSE LET inner == Prefixed(toks, from + 1, k)
         IN  IF toks[from] = Tok("^") THEN First(inner)
             ELSE IF toks[from] = Tok("$") THEN Last(inner)
             ELSE Not(inner)

TermAt(toks, k) ==
    LET earlier == {j \in TermPositions(toks) : j < k}
    IN  Prefixed(toks, IF earlier = {} THEN 1 ELSE Max(earlier) + 1, k)

\* the terms of the token list, in order
TermsOf(toks) ==
    LET at == TermPositions(toks)
    IN  [i \in 1..Cardinality(at) |->
            TermAt(toks, CHOOSE k \in at : Cardinality({j \in at : j <= k}) = i)]

\* C10: without binary operators every run of prefix glyphs is applied to the
\* term that follows it, the glyph nearest the term innermost; one term is
\* returned as is, two or more become one And of all of them in order.
C10_PrefixRunsAndImplicitAnd ==
    /\ (pc \in {"combined", "transformed"} /\ tokens # <<>> /\ ~HasBinary(tokens)
            /\ ~IsGlyph(tokens[Len(tokens)], UnaryGlyphs)) =>
           LET terms == TermsOf(tokens)
           IN  parsed = IF Len(terms) = 1 THEN terms[1] ELSE And(terms)
    /\ (pc = "combined" /\ tokens = <<Tok("~"), Tok("^"), Tok("A")>>) =>
           parsed = Not(First(Has("A")))
    /\ (pc = "combined" /\ tokens = <<Tok("A"), Tok("B"), Tok("C")>>) =>
           parsed = And(<<Has("A"), Has("B"), Has("C")>>)

C10_Witness ==
    /\ pc = "combined"
    /\ tokens = <<Tok("~"), Tok("^"), Tok("A"), Tok("$"), Tok("B")>>
    /\ parsed = And(<<Not(First(Has("A"))), Last(Has("B"))>>)

(***************************************************************************)
(* The text session: a pattern text is tokenized and parsed.                *)
(***************************************************************************)
MaxText == 3

\* the characters a pattern text is written with
Letters ==
    {"A", "B", " ", "-", "=", ">",
     "{", "[", "(", ")", "]", "}", "|", "&", "^", "$", "~"}

\* pattern texts of the parser's tests and of its documentation, longer than MaxText
Patterns ==
    {<<"[", "A", " ", "B", "]">>,
     <<"{", "A", " ", "B", "}">>,
     <<"[", "A", " ", "B", "}">>,
     <<"{", "A", " ", "B", "]">>,
     <<"A", " ", "-", ">", " ", "B">>,
     <<"A", "-", ">", "B">>,
     <<"A", "=", ">", "B">>,
     <<"A", " ", "=", ">", " ", "B">>,
     <<"[", "A", " ", "B", " ", "|", " ", "A", "]">>,
     <<"[", "A", " ", "(", "B", " ", "A", ")", "]">>,
     <<"[", "A", " ", "~", "(", "B", " ", "|", " ", "A", ")", "]">>,
     <<"[", "A", " ", "~", "^", "(", "B", " ", "|", " ", "A", ")", "]">>,
     <<"[", "A", " ", "B", "]", " ", "-", ">", " ", "[", "B", "]">>,
     <<"[", "A", " ", "B", "]", " ", "-", ">", " ", "(", "B", " ", "&", " ", "A", ")">>,
     <<"(", "A", " ", "|", " ", "B", ")", " ", "&", " ", "A">>,
     <<"{", "A", " ", "[", "B", " ", "A", "]", "}">>,
     <<"A", "-", "B", " ", "-", ">", " ", "B">>,
     <<"[", "A", "-", "B", " ", "B", "]">>,
     <<"(", "A", ")", ")">>,
     <<"(", "(", "A", ")">>,
     <<"[", "~", "A", "]">>,
     <<"[", "-", " ", "A", "]">>,
     <<"[", "A", "-", "B", "]">>}

InitText ==
    /\ pc = "text"
    /\ \/ text \in Patterns
       \/ \E n \in 0..MaxText : text \in [1..n -> Letters]
    /\ words = <<>>
    /\ tree = NoRule
    /\ reparsed = NoRule
    /\ rule = NoRule
    /\ NoMatching
    /\ NoComparison
    /\ NoParsing
    /\ NoVisit
    /\ NoBinding
    /\ NoMining
    /\ NoInstrumenting
    /\ NoExtracting

\* tokenize(text)
Tokenize ==
    /\ pc = "text"
    /\ words' = tokenize(text)
    /\ pc' = "tokenized"
    /\ UNCHANGED <<matchVars, eqVars, parseVars, text, tree, reparsed, visitVars, bindVars, mineVars, inoutVars, extractVars>>

\* parse(text)
Parse ==
    /\ pc = "text"
    /\ words' = tokenize(text)
    /\ tree' = parse(text)
    /\ pc' = "parsed"
    /\ UNCHANGED <<matchVars, eqVars, parseVars, text, reparsed, visitVars, bindVars, mineVars, inoutVars, extractVars>>

\* parse(repr(tree)), for a tree that parse returned
Reparse ==
    /\ pc = "parsed"
    /\ tree.type \in RuleTypes
    /\ reparsed' = parse(Repr(tree))
    /\ pc' = "reparsed"
    /\ UNCHANGED <<matchVars, eqVars, parseVars, text, words, tree, visitVars, bindVars, mineVars, inoutVars, extractVars>>

NextText == Tokenize \/ Parse \/ Reparse

SpecText == InitText /\ [][NextText]_vars

(***************************************************************************)
(* Claims about parse and tokenize.                                         *)
(***************************************************************************)
Openers == {Tok("("), Tok("["), Tok("{")}

Closers == {Tok(")"), Tok("]"), Tok("}")}

OperatorGlyphs == BinaryGlyphs \cup UnaryGlyphs

\* a case the statement under check says nothing about
Unstated == [type |-> "Unstated"]

\* a string token that is neither an operator glyph nor a bracket
IsElement(token) ==
    /\ token.type = "str"
    /\ token.s \notin OperatorGlyphs
    /\ token \notin Openers \cup Closers

\* the slice a bracket pair stands for: Slice(first inner token), open on
\* the sides written with a brace, with the rest as one nested sub-rule
SliceOf(opener, inner, closer) ==
    IF inner = <<>> \/ ~IsElement(inner[1]) THEN Unstated
    ELSE LET whole == Slice(inner[1].s, opener = Tok("{"), closer = Tok("}"))
             rest == Tail(inner)
         IN  IF rest = <<>> THEN whole
             ELSE IF Raised(to_rule(rest)) THEN to_rule(rest)
             ELSE Lshift(whole, to_rule(rest))

\* the reading of a bracketed token list: the innermost pairs are replaced
\* by the rule they stand for until none is left
RECURSIVE Reduced(_)
Reduced(toks) ==
    LET closers == {k \in 1..Len(toks) : toks[k] \in Closers}
        j == Min(closers)
        openers == {k \in 1..(j - 1) : toks[k] \in Openers}
        i == Max(openers)
        inner == SubSeq(toks, i + 1, j - 1)
        term == IF toks[i] = Tok("(") THEN to_rule(inner)
                ELSE SliceOf(toks[i], inner, toks[j])
    IN  IF closers = {}
        THEN IF \E k \in 1..Len(toks) : toks[k] \in Openers THEN Unstated
             ELSE to_rule(toks)
        ELSE IF openers = {} THEN Unstated
        ELSE IF term = Unstated \/ Raised(term) THEN term
        ELSE Reduced(SubSeq(toks, 1, i - 1) \o <<term>>
                        \o SubSeq(toks, j + 1, Len(toks)))

AsTokens(ws) == [k \in 1..Len(ws) |-> Tok(ws[k])]

\* C11: parse turns each bracketed slice into Slice(first inner token), open
\* on the side whose bracket is a brace, with the remaining inner tokens as
\* one nested sub-rule, and each (...) group into the rule of its inner tokens
\* used as a single term of the enclosing expression.
C11_BracketsBecomeTerms ==
    (pc = "parsed" /\ Reduced(AsTokens(words)) # Unstated) =>
        tree = Reduced(AsTokens(words))

\* the tokens of a bracket-free list between two binary operators, one list
\* per operand, in the order they are written
RECURSIVE Segments(_)
Segments(toks) ==
    LET cuts == {k \in 1..Len(toks) : toks[k] \in {Tok(g) : g \in BinaryGlyphs}}
    IN  IF cuts = {} THEN <<toks>>
        ELSE <<SubSeq(toks, 1, Min(cuts) - 1)>>
                \o Segments(SubSeq(toks, Min(cuts) + 1, Len(toks)))

\* an operand that cannot be built: nothing in it, or a unary glyph at its end
Malformed(seg) ==
    seg = <<>> \/ seg[Len(seg)] \in {Tok(g) : g \in UnaryGlyphs}

\* the named error of the leftmost malformed operand of a bracket-free list
FlatError(toks) ==
    LET segs == Segments(toks)
        bad == {k \in 1..Len(segs) : Malformed(segs[k])}
    IN  IF bad = {} THEN NoRule
        ELSE IF segs[Min(bad)] = <<>>
        THEN ValueError("Invalid syntax: operator split mismatch")
        ELSE ValueError("Invalid syntax: invalid operator position")

Messages ==
    {"Invalid syntax: operator split mismatch",
     "Invalid syntax: invalid operator position",
     "Invalid syntax: operator not supported as first element of slice",
     "Invalid syntax: extra ) found",
     "Invalid syntax: unclosed group/slice"}

\* C12: parse raises a parse error with a message of its own for each
\* malformed shape: an empty operand at a split point, a unary glyph left at
\* the end of an operand, an operator glyph as the first element of a slice,
\* a closing bracket without an opening one, and an unclosed group or slice.
\* (The last conjunct leaves out the slices whose element is "-", "=" or ">":
\* what parse does with those is the subject of C11.)
C12_NamedParseErrors ==
    pc = "parsed" =>
        LET toks == AsTokens(words)
            closers == {k \in 1..Len(toks) : toks[k] \in Closers}
            j == Min(closers)
            openers == {k \in 1..(j - 1) : toks[k] \in Openers}
            i == Max(openers)
            inner == SubSeq(toks, i + 1, j - 1)
            opened == \E k \in 1..Len(toks) : toks[k] \in Openers
        IN  /\ Cardinality(Messages) = 5
            /\ (closers = {} /\ ~opened /\ FlatError(toks) # NoRule) =>
                    tree = FlatError(toks)
            /\ (closers = {} /\ opened) =>
                    tree = ValueError("Invalid syntax: unclosed group/slice")
            /\ (closers # {} /\ openers = {}) =>
                    tree = ValueError("Invalid syntax: extra " \o words[j] \o " found")
            /\ (closers # {} /\ openers # {} /\ toks[i] # Tok("(") /\ inner # <<>>
                  /\ inner[1].s \in OperatorGlyphs) =>
                    tree = ValueError("Invalid syntax: operator not supported as first element of slice")
            /\ (closers # {} /\ openers # {} /\ toks[i] = Tok("(")
                  /\ FlatError(inner) # NoRule) =>
                    tree = FlatError(inner)
            /\ (closers # {} /\ openers # {} /\ toks[i] # Tok("(") /\ Len(inner) > 1
                  /\ IsElement(inner[1]) /\ ~In(inner[1].s, <<"-", ">", "=", ">">>)
                  /\ FlatError(Tail(inner)) # NoRule) =>
                    tree = FlatError(Tail(inner))

\* an unmatched closing bracket after a well-formed group has been reported
C12_Witness ==
    /\ pc = "parsed"
    /\ words = <<"(", "A", ")", ")">>
    /\ tree = ValueError("Invalid syntax: extra ) found")

\* the characters at which a text is split: the single glyphs and the blank
Separators == {"{", "[", "(", ")", "]", "}", "|", "&", "^", "$", "~", " "}

\* "->" or "=>" is written at position k
ArrowAt(txt, k) ==
    /\ k < Len(txt)
    /\ txt[k] \in {"-", "="}
    /\ txt[k + 1] = ">"

\* the last position of the maximal run of other characters that starts at k
RECURSIVE RunEnd(_, _)
RunEnd(txt, k) ==
    IF k < Len(txt) /\ txt[k + 1] \notin Separators /\ ~ArrowAt(txt, k + 1)
    THEN RunEnd(txt, k + 1)
    ELSE k

\* the tokens of a text split only at glyphs, two-character operators and
\* blanks, from position k on
RECURSIVE Runs(_, _)
Runs(txt, k) ==
    IF k > Len(txt) THEN <<>>
    ELSE IF txt[k] = " " THEN Runs(txt, k + 1)
    ELSE IF txt[k] \in Separators THEN <<txt[k]>> \o Runs(txt, k + 1)
    ELSE IF ArrowAt(txt, k) THEN <<txt[k] \o ">">> \o Runs(txt, k + 2)
    ELSE <<Join(SubSeq(txt, k, RunEnd(txt, k)))>> \o Runs(txt, RunEnd(txt, k) + 1)

\* C13: tokenize splits the text only at the glyphs {[()]}|&^$~, at the
\* operators -> and =>, and at blanks: every other maximal run of characters,
\* also one holding a "-", "=" or ">" that is no part of an operator, is one
\* token, and -> and => are tokens of their own with or without blanks around.
C13_SplitsOnlyAtGlyphs ==
    pc = "tokenized" => words = Runs(text, 1)

(***************************************************************************)
(* visitor.py: ReplaceVariables.  A replace table (a dict) is the sequence   *)
(* of its items <<old, new>> in insertion order, with no key twice.  A       *)
(* visit_* method changes the node it is handed in place and returns it:     *)
(* here it returns the node as it is after the call.                         *)
(***************************************************************************)
\* for old, new in self.replaces.items(): if element == old: new; break
RECURSIVE ReplaceLoop(_, _, _)
ReplaceLoop(items, k, element) ==
    IF k > Len(items) THEN element
    ELSE IF element = items[k][1] THEN items[k][2]
    ELSE ReplaceLoop(items, k + 1, element)

RECURSIVE accept(_, _)

\* tuple(rule.accept(self) for rule in rules)
AcceptAll(rs, items) == [k \in 1..Len(rs) |-> accept(rs[k], items)]

visit_has(has, items) ==
    [has EXCEPT !.element = ReplaceLoop(items, 1, has.element)]

visit_slice(slice, items) ==
    [slice EXCEPT !.element = ReplaceLoop(items, 1, slice.element),
                  !.subrules = AcceptAll(slice.subrules, items)]

visit_sequence(seq, items) == [seq EXCEPT !.rules = AcceptAll(seq.rules, items)]

visit_and(and_, items) == [and_ EXCEPT !.rules = AcceptAll(and_.rules, items)]

visit_or(or_, items) == [or_ EXCEPT !.rules = AcceptAll(or_.rules, items)]

visit_not(not_, items) == [not_ EXCEPT !.rule = accept(not_.rule, items)]

visit_intersect(intersect, items) ==
    [intersect EXCEPT !.rules = AcceptAll(intersect.rules, items)]

visit_first(first, items) == [first EXCEPT !.rule = accept(first.rule, items)]

visit_last(last, items) == [last EXCEPT !.rule = accept(last.rule, items)]

\* rule.accept(visitor): the visit_* method of the rule's class
accept(r, items) ==
    CASE r.type = "Has" -> visit_has(r, items)
      [] r.type = "Slice" -> visit_slice(r, items)
      [] r.type = "Sequence" -> visit_sequence(r, items)
      [] r.type = "And" -> visit_and(r, items)
      [] r.type = "Or" -> visit_or(r, items)
      [] r.type = "Not" -> visit_not(r, items)
      [] r.type = "Intersect" -> visit_intersect(r, items)
      [] r.type = "First" -> visit_first(r, items)
      [] r.type = "Last" -> visit_last(r, items)

\* the visit that hands the rule itself to the visit_* methods: the rule
\* given and the rule returned are one object
visit_InPlace(r, items) ==
    [given |-> accept(r, items), returned |-> accept(r, items)]

\* ReplaceVariables.visit(rule): the visit_* methods work on deepcopy(rule),
\* an object of its own, so the rule given stays as it was
visit(r, items) ==
    [given |-> r, returned |-> accept(r, items)]

(***************************************************************************)
(* The renaming session: a rule is rewritten under a replace table.         *)
(***************************************************************************)
MaxReplaces == 2

Names == Elements \cup {"C"}

\* the dicts of at most MaxReplaces items over the names
Tables ==
    {t \in UNION {[1..n -> Names \X Names] : n \in 0..MaxReplaces} :
        \A i \in 1..Len(t) : \A j \in 1..Len(t) : i # j => t[i][1] # t[j][1]}

InitVisit ==
    /\ pc = "given"
    /\ rule \in Rules
    /\ replaces \in Tables
    /\ visited = NoRule
    /\ NoMatching
    /\ NoComparison
    /\ NoParsing
    /\ NoText
    /\ NoBinding
    /\ NoMining
    /\ NoInstrumenting
    /\ NoExtracting

\* ReplaceVariables(replaces).visit(rule)
Visit ==
    /\ pc = "given"
    /\ rule' = visit(rule, replaces).given
    /\ visited' = visit(rule, replaces).returned
    /\ pc' = "visited"
    /\ UNCHANGED <<sequence, start, positions, checked, eqVars, parseVars, textVars, replaces, bindVars, mineVars, inoutVars, extractVars>>

\* new_rule != rule, as sequence_bindings asks of the rule returned
Differs ==
    /\ pc = "visited"
    /\ equal' = ~RuleEq(visited, rule)
    /\ pc' = "differs"
    /\ UNCHANGED <<matchVars, other, reprs, hashes, parseVars, textVars, visitVars, bindVars, mineVars, inoutVars, extractVars>>

NextVisit == Visit \/ Differs

SpecVisit == InitVisit /\ [][NextVisit]_vars

(***************************************************************************)
(* Claims about the tree transformation.                                    *)
(***************************************************************************)
\* the elements of the Has and Slice nodes of a rule, parents before children,
\* left to right
RECURSIVE Leaves(_)
Leaves(r) ==
    CASE r.type = "Has" -> <<r.element>>
      [] r.type = "Slice" ->
            <<r.element>> \o Concat([k \in 1..Len(r.subrules) |-> Leaves(r.subrules[k])])
      [] r.type \in {"Sequence", "And", "Or", "Intersect"} ->
            Concat([k \in 1..Len(r.rules) |-> Leaves(r.rules[k])])
      [] r.type \in {"Not", "First", "Last"} -> Leaves(r.rule)

\* the rule with every element blanked: its node variants, flags and arities
RECURSIVE Shape(_)
Shape(r) ==
    CASE r.type = "Has" -> [r EXCEPT !.element = "_"]
      [] r.type = "Slice" ->
            [r EXCEPT !.element = "_",
                      !.subrules = [k \in 1..Len(r.subrules) |-> Shape(r.subrules[k])]]
      [] r.type \in {"Sequence", "And", "Or", "Intersect"} ->
            [r EXCEPT !.rules = [k \in 1..Len(r.rules) |-> Shape(r.rules[k])]]
      [] r.type \in {"Not", "First", "Last"} -> [r EXCEPT !.rule = Shape(r.rule)]

\* the value the table holds for a key, the element itself when it is no key
Lookup(items, element) ==
    IF \E k \in 1..Len(items) : items[k][1] = element
    THEN items[CHOOSE k \in 1..Len(items) : items[k][1] = element][2]
    ELSE element

\* C14: ReplaceVariables(table).visit(r) returns a tree of the shape of r in
\* which every Has and Slice element that is a key of the table is replaced,
\* once, by the table's value and nothing else differs; r itself is left as
\* it was: the same canonical text and the same equality class.
C14_RenamesACopy ==
    [][(pc = "given" /\ pc' = "visited") =>
          /\ Shape(visited') = Shape(rule)
          /\ Leaves(visited') =
                [k \in 1..Len(Leaves(rule)) |-> Lookup(replaces, Leaves(rule)[k])]
          /\ Repr(rule') = Repr(rule)
          /\ RuleEq(rule', rule)]_vars

\* a slice and its sub-rule renamed under a table whose value is a key too
C14_Witness ==
    /\ pc = "visited"
    /\ replaces = <<<<"A", "B">>, <<"B", "C">>>>
    /\ rule = Lshift(Slice("A", FALSE, TRUE), Has("B"))
    /\ visited = Lshift(Slice("B", FALSE, TRUE), Has("C"))

(***************************************************************************)
(* counter.py: possible_bindings and Bindings.  A dict is the sequence of   *)
(* its items <<key, value>> in insertion order.  A binding is a record:     *)
(* [var, bind] for the tuple (var, bind), [unbound |-> id] for an Unbound   *)
(* instance, id standing for id(self).                                      *)
(***************************************************************************)
\* text.split(sep): the pieces of the text between the separators
RECURSIVE Split(_, _)
Split(chars, sep) ==
    LET hits == {k \in 1..Len(chars) : chars[k] = sep}
    IN  IF hits = {} THEN <<chars>>
        ELSE <<SubSeq(chars, 1, Min(hits) - 1)>>
                \o Split(SubSeq(chars, Min(hits) + 1, Len(chars)), sep)

\* text.strip(): the text without the blanks at its two ends
RECURSIVE Strip(_)
Strip(chars) ==
    IF chars # <<>> /\ Head(chars) = " " THEN Strip(Tail(chars))
    ELSE IF chars # <<>> /\ chars[Len(chars)] = " "
    THEN Strip(SubSeq(chars, 1, Len(chars) - 1))
    ELSE chars

\* {value.strip() for value in values.split(",")}
UserInput(values) ==
    {Join(Strip(Split(values, ",")[k])) : k \in 1..Len(Split(values, ","))}

\* "varname, values = variable.split(sep)" raises ValueError unless the split
\* has two pieces
Unpacks(variable) ==
    IF \E k \in 1..Len(variable) : variable[k] = ":"
    THEN Len(Split(variable, ":")) = 2
    ELSE IF \E k \in 1..Len(variable) : variable[k] = "~"
    THEN Len(Split(variable, "~")) = 2
    ELSE TRUE

\* possible_bindings that reads NAME~v1,v2 as it reads NAME:v1,v2
possible_bindings_ExceptAsOnly(variable, names) ==
    IF \E k \in 1..Len(variable) : variable[k] = ":"
    THEN LET parts == Split(variable, ":")
         IN  <<Join(parts[1]), UserInput(parts[2]) \cap names>>
    ELSE IF \E k \in 1..Len(variable) : variable[k] = "~"
    THEN LET parts == Split(variable, "~")
         IN  <<Join(parts[1]), UserInput(parts[2]) \cap names>>
    ELSE <<Join(variable), names>>

\* possible_bindings(variable, all_names): <<varname, names>>
possible_bindings(variable, names) ==
    IF \E k \in 1..Len(variable) : variable[k] = ":"
    THEN LET parts == Split(variable, ":")
         IN  <<Join(parts[1]), UserInput(parts[2]) \cap names>>
    ELSE IF \E k \in 1..Len(variable) : variable[k] = "~"
    THEN LET parts == Split(variable, "~")
         IN  <<Join(parts[1]), names \ UserInput(parts[2])>>
    ELSE <<Join(variable), names>>

\* d[key] = value on a dict with string keys
SetItem(items, key, value) ==
    IF \E k \in 1..Len(items) : items[k][1] = key
    THEN [k \in 1..Len(items) |->
            IF items[k][1] = key THEN <<key, value>> ELSE items[k]]
    ELSE Append(items, <<key, value>>)

\* dict(pairs)
RECURSIVE DictOf(_, _)
DictOf(pairs, items) ==
    IF pairs = <<>> THEN items
    ELSE DictOf(Tail(pairs), SetItem(items, Head(pairs)[1], Head(pairs)[2]))

\* Bindings.__init__: all_bindings, or the ValueError of the first
\* declaration that does not unpack
InitBindings(vars_, names) ==
    IF \E k \in 1..Len(vars_) : ~Unpacks(vars_[k])
    THEN ValueError("too many values to unpack (expected 2)")
    ELSE DictOf([k \in 1..Len(vars_) |-> possible_bindings(vars_[k], names)], <<>>)

Unbound(id) == [unbound |-> id]

IsUnbound(bind) == DOMAIN bind = {"unbound"}

\* bind[-1] with one id shared by all Unbound instances
LastOf_SharedId(bind) == IF IsUnbound(bind) THEN [id |-> 0] ELSE [name |-> bind.bind]

\* bind[-1]: the name bound, or the id of the Unbound instance
LastOf(bind) == IF IsUnbound(bind) THEN [id |-> bind.unbound] ELSE [name |-> bind.bind]

\* == of two bindings: any two Unbound instances are equal
BindEq(a, b) == IF IsUnbound(a) THEN IsUnbound(b) ELSE a = b

\* == of two binding tuples
BindingsEq(xs, ys) ==
    /\ Len(xs) = Len(ys)
    /\ \A k \in 1..Len(xs) : BindEq(xs[k], ys[k])

(***************************************************************************)
(* sequences.py: in_out_sequence.  A trace is here a list of lists, as in   *)
(* the code; set(interval) is SetOf.  The order in which a set of new or    *)
(* removed elements is walked is the argument "orders": two enumerations    *)
(* of the element universe, one for each kind of marker.                    *)
(***************************************************************************)
SetOf(list) == {list[i] : i \in 1..Len(list)}

\* for element in a_set, walked in the given order
Walk(a_set, order) == SelectSeq(order, LAMBDA e : e \in a_set)

\* interval.append(prefix + element) for each element walked
Markers(prefix, walked) == [i \in 1..Len(walked) |-> prefix \o walked[i]]

\* in_out_sequence that marks against the union of all earlier intervals
InOutStep_SinceStart(elements, current) == elements \cup current

\* current = elements
InOutStep(elements, current) == elements

\* the loop over the intervals of newsequence
RECURSIVE InOutLoop(_, _, _, _, _, _, _, _)
InOutLoop(seq, in_prefix, out_prefix, orders, k, current, newsequence_, all_names_) ==
    IF k > Len(seq)
    THEN [given |-> seq, newsequence |-> newsequence_, all_names |-> all_names_]
    ELSE LET interval == seq[k]
             elements == SetOf(interval)
             new_elements == Walk(elements \ current, orders[1])
             removed_elements == Walk(current \ elements, orders[2])
             withIn == IF in_prefix # ""
                       THEN interval \o Markers(in_prefix, new_elements)
                       ELSE interval
             withOut == IF out_prefix # ""
                        THEN withIn \o Markers(out_prefix, removed_elements)
                        ELSE withIn
         IN  InOutLoop(seq, in_prefix, out_prefix, orders, k + 1,
                       InOutStep(elements, current),
                       Append(newsequence_, withOut),
                       all_names_ \cup elements)

\* in_out_sequence(sequence, in_prefix, out_prefix): the argument as it is
\* left, the augmented copy and the vocabulary
in_out_sequence(seq, in_prefix, out_prefix, orders) ==
    InOutLoop(seq, in_prefix, out_prefix, orders, 1, {}, <<>>, {})

\* the ways a set can come out when it is iterated
Orderings(S) ==
    {f \in [1..Cardinality(S) -> S] : \A i, j \in 1..Cardinality(S) : i # j => f[i] # f[j]}

\* create_replace(replace, old_name, new_name, in_prefix, out_prefix)
create_replace(replace, old_name, new_name, in_prefix, out_prefix) ==
    LET plain == SetItem(replace, old_name, new_name)
        withIn == IF in_prefix # ""
                  THEN SetItem(plain, in_prefix \o old_name, in_prefix \o new_name)
                  ELSE plain
    IN  IF out_prefix # ""
        THEN SetItem(withIn, out_prefix \o old_name, out_prefix \o new_name)
        ELSE withIn

\* the replaces dict of one binding tuple: Unbound entries are skipped
RECURSIVE ReplacesOf(_, _, _, _)
ReplacesOf(bindings, replace, in_prefix, out_prefix) ==
    IF bindings = <<>> THEN replace
    ELSE IF IsUnbound(Head(bindings))
    THEN ReplacesOf(Tail(bindings), replace, in_prefix, out_prefix)
    ELSE ReplacesOf(Tail(bindings),
                    create_replace(replace, Head(bindings).var, Head(bindings).bind,
                                   in_prefix, out_prefix),
                    in_prefix, out_prefix)

\* binding_options: per variable, its candidates in the trace in the order
\* the set gives them, or one Unbound instance
binding_options(bound, names, orders) ==
    [k \in 1..Len(bound) |->
        IF bound[k][2] \cap names = {} THEN <<Unbound(k)>>
        ELSE [i \in 1..Len(orders[k]) |-> [var |-> bound[k][1], bind |-> orders[k][i]]]]

\* self.unique and len({bind[-1] for bind in bindings}) != len(bindings)
Rejected(bindings, uniq) ==
    uniq /\ Cardinality({LastOf(bindings[k]) : k \in 1..Len(bindings)}) # Len(bindings)

\* self.enacted.get(bindings): the list recorded, <<>> when there is none
EnactedGet(memo, bindings) ==
    LET hits == {k \in 1..Len(memo) : BindingsEq(memo[k][1], bindings)}
    IN  IF hits = {} THEN <<>> ELSE memo[Min(hits)][2]

\* self.enacted[bindings] = replacements
EnactedSet(memo, bindings, replacements) ==
    IF \E k \in 1..Len(memo) : BindingsEq(memo[k][1], bindings)
    THEN [k \in 1..Len(memo) |->
            IF BindingsEq(memo[k][1], bindings) THEN <<memo[k][1], replacements>>
            ELSE memo[k]]
    ELSE Append(memo, <<bindings, replacements>>)

\* self.forwardref[(rule, bindings)] = new_rule
ForwardSet(fwd, r, bindings, new_rule) ==
    IF \E k \in 1..Len(fwd) : RuleEq(fwd[k][1][1], r) /\ BindingsEq(fwd[k][1][2], bindings)
    THEN [k \in 1..Len(fwd) |->
            IF RuleEq(fwd[k][1][1], r) /\ BindingsEq(fwd[k][1][2], bindings)
            THEN <<fwd[k][1], new_rule>> ELSE fwd[k]]
    ELSE Append(fwd, <<<<r, bindings>>, new_rule>>)

\* self.backref[new_rule].add(rule)
BackAdd(back, new_rule, r) ==
    IF \E k \in 1..Len(back) : RuleEq(back[k][1], new_rule)
    THEN [k \in 1..Len(back) |->
            IF RuleEq(back[k][1], new_rule) THEN <<back[k][1], back[k][2] \cup {r}>>
            ELSE back[k]]
    ELSE Append(back, <<new_rule, {r}>>)

\* the loop over the rules that rewrites each under one replaces dict
RECURSIVE RewriteLoop(_, _, _, _, _)
RewriteLoop(rs, i, replace, bindings, b) ==
    IF i > Len(rs) THEN b
    ELSE LET new_rule == visit(rs[i], replace).returned
         IN  IF ~RuleEq(new_rule, rs[i])
             THEN RewriteLoop(rs, i + 1, replace, bindings,
                      [b EXCEPT !.replacements = Append(@, <<rs[i], new_rule>>),
                                !.forwardref = ForwardSet(@, rs[i], bindings, new_rule),
                                !.backref = BackAdd(@, new_rule, rs[i])])
             ELSE RewriteLoop(rs, i + 1, replace, bindings, b)

\* the loop of sequence_bindings over product(*binding_options); b holds the
\* fields of the Bindings object, the pairs yielded so far and the tuples
\* for which a ReplaceVariables transformer has been built and run
RECURSIVE BindingsLoop(_, _, _, _, _, _, _)
BindingsLoop(prod, k, rs, uniq, in_prefix, out_prefix, b) ==
    IF k > Len(prod) THEN b
    ELSE IF Rejected(prod[k], uniq)
    THEN BindingsLoop(prod, k + 1, rs, uniq, in_prefix, out_prefix, b)
    ELSE IF EnactedGet(b.enacted, prod[k]) # <<>>
    THEN BindingsLoop(prod, k + 1, rs, uniq, in_prefix, out_prefix,
             [b EXCEPT !.yielded = @ \o EnactedGet(b.enacted, prod[k])])
    ELSE LET replace == ReplacesOf(prod[k], <<>>, in_prefix, out_prefix)
             done == RewriteLoop(rs, 1, replace, prod[k],
                                 [b EXCEPT !.replacements = <<>>])
         IN  BindingsLoop(prod, k + 1, rs, uniq, in_prefix, out_prefix,
                 [done EXCEPT !.enacted = EnactedSet(@, prod[k], done.replacements),
                              !.yielded = @ \o done.replacements,
                              !.rewritten = Append(@, prod[k])])

\* list(bindings.sequence_bindings(sequence_names, rules)) with the sets
\* iterated in the given orders
sequence_bindings(b, bound, names, rs, uniq, in_prefix, out_prefix, orders) ==
    IF binding_options(bound, names, orders) = <<>> THEN b
    ELSE BindingsLoop(Product(binding_options(bound, names, orders)), 1, rs, uniq,
                      in_prefix, out_prefix, b)

(***************************************************************************)
(* The binding session: variables are declared over a corpus vocabulary and *)
(* the bindings of one trace are enumerated.                                *)
(***************************************************************************)
MaxVars == 2

in_prefix == "In"

out_prefix == "Out"

\* a declaration: a variable name, alone ("any"), with the values it may
\* take ("only") or with the values it may not take ("except")
Forms ==
    {[name |-> n, kind |-> "any", values |-> <<>>, spaced |-> FALSE] : n \in {"X", "Y"}}
        \cup {[name |-> n, kind |-> "only", values |-> v, spaced |-> FALSE] :
                n \in {"X", "Y"}, v \in {<<"A">>, <<"A", "B">>}}
        \cup {[name |-> n, kind |-> "except", values |-> <<"A">>, spaced |-> FALSE] :
                n \in {"X", "Y"}}
        \cup {[name |-> n, kind |-> "only", values |-> <<"B", "C">>, spaced |-> TRUE] :
                n \in {"X", "Y"}}

\* the values of a declaration as they are written, blanks around them or not
RECURSIVE WrittenValues(_, _)
WrittenValues(values, spaced) ==
    IF values = <<>> THEN <<>>
    ELSE (IF spaced THEN <<" ", Head(values), " ">> ELSE <<Head(values)>>)
            \o (IF Len(values) > 1 THEN <<",">> ELSE <<>>)
            \o WrittenValues(Tail(values), spaced)

\* the text of a declaration: NAME, NAME:v1,v2 or NAME~v1,v2
Written(form) ==
    CASE form.kind = "any" -> <<form.name>>
      [] form.kind = "only" ->
            <<form.name, ":">> \o WrittenValues(form.values, form.spaced)
      [] form.kind = "except" ->
            <<form.name, "~">> \o WrittenValues(form.values, form.spaced)

Declarations == {Written(form) : form \in Forms} \cup {<<"X", ":", "A", ":", "B">>}

Vocabulary == {"A", "B", "C"}

\* rule lists over the variables, their In/Out markers and plain elements
RuleLists ==
    {<<Has("X")>>,
     <<Sequence(<<Has("X"), Has("Y")>>, FALSE), Has("A")>>,
     <<Lshift(Slice("X", FALSE, FALSE), Has("InY")), Not(Has("Y"))>>}

InitBind ==
    /\ pc = "declared"
    /\ \E n \in 0..MaxVars : variables \in [1..n -> Declarations]
    /\ all_names \in SUBSET Vocabulary
    /\ unique \in BOOLEAN
    /\ rules \in RuleLists
    /\ sequence_names = {}
    /\ all_bindings = <<>>
    /\ considered = <<>>
    /\ yielded = <<>>
    /\ enacted = <<>>
    /\ backref = <<>>
    /\ forwardref = <<>>
    /\ rule = NoRule
    /\ NoMatching
    /\ NoComparison
    /\ NoParsing
    /\ NoText
    /\ NoVisit
    /\ NoMining
    /\ NoInstrumenting
    /\ NoExtracting

\* Bindings(variables, all_names, unique=unique)
Declare ==
    /\ pc = "declared"
    /\ all_bindings' = InitBindings(variables, all_names)
    /\ pc' = IF \E k \in 1..Len(variables) : ~Unpacks(variables[k])
             THEN "failed" ELSE "bound"
    /\ UNCHANGED <<matchVars, eqVars, parseVars, textVars, visitVars, variables, all_names, unique, rules, sequence_names, considered, yielded, enacted, backref, forwardref, mineVars, inoutVars, extractVars>>

\* list(bindings.sequence_bindings(sequence_names, rules)) for a trace of the
\* corpus
SequenceBindings ==
    /\ pc = "bound"
    /\ \E names \in SUBSET all_names :
       \E orders \in [1..Len(all_bindings) -> UNION {Orderings(S) : S \in SUBSET names}] :
          /\ \A k \in 1..Len(all_bindings) :
                orders[k] \in Orderings(all_bindings[k][2] \cap names)
          /\ sequence_names' = names
          /\ considered' =
                IF all_bindings = <<>> THEN <<>>
                ELSE Product(binding_options(all_bindings, names, orders))
          /\ LET after == sequence_bindings(
                              [enacted |-> enacted, backref |-> backref,
                               forwardref |-> forwardref, yielded |-> <<>>,
                               replacements |-> <<>>, rewritten |-> <<>>],
                              all_bindings, names, rules, unique,
                              in_prefix, out_prefix, orders)
             IN  /\ yielded' = after.yielded
                 /\ enacted' = after.enacted
                 /\ backref' = after.backref
                 /\ forwardref' = after.forwardref
    /\ pc' = "yielded"
    /\ UNCHANGED <<matchVars, eqVars, parseVars, textVars, visitVars, variables, all_names, unique, rules, all_bindings, mineVars, inoutVars, extractVars>>

NextBind == Declare \/ SequenceBindings

SpecBind == InitBind /\ [][NextBind]_vars

(***************************************************************************)
(* Claims about the bindings of a trace.                                    *)
(***************************************************************************)
\* the declaration a text writes down
Reading(variable) == CHOOSE form \in Forms : Written(form) = variable

\* every declaration is one of the three forms and no variable is declared twice
WellDeclared ==
    /\ \A k \in 1..Len(variables) : \E form \in Forms : Written(form) = variables[k]
    /\ \A i, j \in 1..Len(variables) :
          i # j => Reading(variables[i]).name # Reading(variables[j]).name

Listed(form) == {form.values[k] : k \in 1..Len(form.values)}

\* the allowed-set of a declaration over the corpus vocabulary
Allowed(form) ==
    CASE form.kind = "any" -> all_names
      [] form.kind = "only" -> Listed(form) \cap all_names
      [] form.kind = "except" -> all_names \ Listed(form)

\* the candidates of a declaration in the trace at hand
Candidates(form) ==
    IF Allowed(form) \cap sequence_names = {} THEN {Unbound(0)}
    ELSE {[var |-> form.name, bind |-> v] : v \in Allowed(form) \cap sequence_names}

\* a binding tuple with its Unbound entries made alike
Normal(bindings) ==
    [k \in 1..Len(bindings) |->
        IF IsUnbound(bindings[k]) THEN Unbound(0) ELSE bindings[k]]

\* C15: the candidates of a variable in a trace are its allowed-set (the
\* corpus vocabulary, the listed values within it, or the vocabulary without
\* the listed values) intersected with the trace's vocabulary, Unbound alone
\* when that is empty; the binding tuples of the trace are the cartesian
\* product of the candidates, one entry per variable in declaration order.
C15_CandidatesAndProduct ==
    (pc = "yielded" /\ WellDeclared /\ variables # <<>>) =>
        LET n == Len(variables)
            forms == [k \in 1..n |-> Reading(variables[k])]
            tuples == {t \in [1..n -> UNION {Candidates(forms[k]) : k \in 1..n}] :
                          \A k \in 1..n : t[k] \in Candidates(forms[k])}
        IN  /\ all_bindings = [k \in 1..n |-> <<forms[k].name, Allowed(forms[k])>>]
            /\ {Normal(considered[k]) : k \in 1..Len(considered)} = tuples
            /\ Len(considered) = Cardinality(tuples)

\* two variables, one with listed values and one with excluded values, each
\* with two candidates in the trace
C15_Witness ==
    /\ pc = "yielded"
    /\ variables = <<<<"X", ":", "A", ",", "B">>, <<"Y", "~", "A">>>>
    /\ all_names = {"A", "B", "C"}
    /\ sequence_names = {"A", "B", "C"}
    /\ Len(considered) = 4

\* two distinct variables of the tuple are bound to the same element
Clash(bindings) ==
    \E i, j \in 1..Len(bindings) :
        /\ i # j
        /\ ~IsUnbound(bindings[i])
        /\ ~IsUnbound(bindings[j])
        /\ bindings[i].bind = bindings[j].bind

\* C16: in unique mode a binding tuple is rejected, neither rewritten nor
\* recorded in the memo, iff two distinct variables are bound to the same
\* element in it; Unbound entries never cause a rejection.
C16_UniqueRejectsClashes ==
    (pc = "yielded" /\ unique) =>
        /\ {Normal(enacted[k][1]) : k \in 1..Len(enacted)} =
              {Normal(considered[k]) : k \in {i \in 1..Len(considered) : ~Clash(considered[i])}}
        /\ \A k \in 1..Len(forwardref) : ~Clash(forwardref[k][1][2])
        /\ \A k \in 1..Len(yielded) :
              \E i \in 1..Len(enacted) : \E j \in 1..Len(enacted[i][2]) :
                  enacted[i][2][j] = yielded[k]

\* X and Y over a trace holding A and B: four tuples tried, the two that bind
\* both variables to one element are not in the memo
C16_Witness ==
    /\ pc = "yielded"
    /\ unique
    /\ variables = <<<<"X">>, <<"Y">>>>
    /\ sequence_names = {"A", "B"}
    /\ Len(considered) = 4
    /\ \E k \in 1..Len(considered) : Clash(considered[k])
    /\ {enacted[k][1] : k \in 1..Len(enacted)} =
          {<<[var |-> "X", bind |-> "A"], [var |-> "Y", bind |-> "B"]>>,
           <<[var |-> "X", bind |-> "B"], [var |-> "Y", bind |-> "A"]>>}

(***************************************************************************)
(* counter.py: split_rules, divide and mine_rules.  A number is a fraction  *)
(* in lowest terms, [num, den], or NaN; the rounding of floats is left out. *)
(***************************************************************************)
RECURSIVE Gcd(_, _)
Gcd(a, b) == IF b = 0 THEN a ELSE Gcd(b, a % b)

Frac(a, b) == [num |-> a \div Gcd(a, b), den |-> b \div Gcd(a, b)]

NaN == [nan |-> TRUE]

IsNaN(x) == DOMAIN x = {"nan"}

ZeroDivisionError == [type |-> "ZeroDivisionError"]

TypeError == [type |-> "TypeError"]

\* the division in which zero over zero is zero
TrueDiv_ZeroOverZero(left, right) ==
    IF ~IsNaN(right) /\ right.num = 0
    THEN IF ~IsNaN(left) /\ left.num = 0 THEN Frac(0, 1) ELSE ZeroDivisionError
    ELSE IF IsNaN(left) \/ IsNaN(right) THEN NaN
    ELSE Frac(left.num * right.den, left.den * right.num)

\* left / right: a zero divisor raises, NaN otherwise propagates
TrueDiv(left, right) ==
    IF ~IsNaN(right) /\ right.num = 0 THEN ZeroDivisionError
    ELSE IF IsNaN(left) \/ IsNaN(right) THEN NaN
    ELSE Frac(left.num * right.den, left.den * right.num)

\* divide that answers zero on ZeroDivisionError
divide_ZeroOnError(left, right) ==
    LET quotient == TrueDiv(left, right)
    IN  IF quotient = ZeroDivisionError THEN Frac(0, 1) ELSE quotient

\* divide(left, right): left / right, nan on ZeroDivisionError
divide(left, right) ==
    LET quotient == TrueDiv(left, right)
    IN  IF quotient = ZeroDivisionError THEN NaN ELSE quotient

\* itertools.combinations(range(lo, n + 1), size), in lexicographic order
RECURSIVE Combinations(_, _, _)
Combinations(lo, n, size) ==
    IF size = 0 THEN << <<>> >>
    ELSE Concat([d \in 1..(n - lo + 1) |->
                    LET rest == Combinations(lo + d, n, size - 1)
                    IN  [j \in 1..Len(rest) |-> <<lo + d - 1>> \o rest[j]]])

\* [rules[i] for i in all_indexes if i in indexes] and its complement
Picked(rs, indexes, inside) ==
    LET RECURSIVE pick(_)
        pick(i) ==
            IF i > Len(rs) THEN <<>>
            ELSE (IF ((\E k \in 1..Len(indexes) : indexes[k] = i) <=> inside)
                  THEN <<rs[i]>> ELSE <<>>) \o pick(i + 1)
    IN  pick(1)

\* split_rules that takes the left sides of one size only
split_rules_OneSize(rs) ==
    LET combos == Combinations(1, Len(rs), 1)
    IN  IF Len(rs) < 2 THEN <<>>
        ELSE [j \in 1..Len(combos) |->
                <<Picked(rs, combos[j], TRUE), Picked(rs, combos[j], FALSE)>>]

\* list(split_rules(rules)): the pairs <<lhs, rhs>> in the order yielded
split_rules(rs) ==
    Concat([size \in 1..(Len(rs) - 1) |->
              LET combos == Combinations(1, Len(rs), size)
              IN  [j \in 1..Len(combos) |->
                      <<Picked(rs, combos[j], TRUE), Picked(rs, combos[j], FALSE)>>]])

\* result[rule] of the defaultdict(set)
ResultGet(res, r) ==
    LET hits == {k \in 1..Len(res) : RuleEq(res[k][1], r)}
    IN  IF hits = {} THEN {} ELSE res[Min(hits)][2]

\* set.intersection(*[result[rule] for rule in rules]), rules not empty
RECURSIVE Intersection(_, _)
Intersection(res, rs) ==
    IF Len(rs) = 1 THEN ResultGet(res, rs[1])
    ELSE ResultGet(res, Head(rs)) \cap Intersection(res, Tail(rs))

\* ", ".join(map(str, rules))
RECURSIVE NameOf(_)
NameOf(rs) ==
    IF rs = <<>> THEN <<>>
    ELSE IF Len(rs) = 1 THEN Repr(rs[1])
    ELSE Cat(<<Repr(rs[1]), <<",", " ">>, NameOf(Tail(rs))>>)

\* AssociationItem(", ".join(map(str, rules)), lines, len(lines) / len(sequences))
AssociationItem(rs, res, seqs) ==
    LET lines == Intersection(res, rs)
    IN  [name |-> NameOf(rs),
         lines |-> lines,
         support |-> TrueDiv(Frac(Cardinality(lines), 1), Frac(Len(seqs), 1))]

\* the AssociationRule of one pair of split_rules
AssociationRule(int_item, pair, res, seqs) ==
    LET lhs_item == AssociationItem(pair[1], res, seqs)
        rhs_item == AssociationItem(pair[2], res, seqs)
        conf == divide(int_item.support, lhs_item.support)
    IN  [lhs |-> lhs_item, rhs |-> rhs_item, confidence |-> conf,
         lift |-> divide(conf, rhs_item.support)]

\* mine_rules(sequences, rules, result): (int_item, association_rules), or
\* the TypeError of an intersection of nothing, or the ZeroDivisionError of
\* a support over no sequences
mine_rules(seqs, rs, res) ==
    IF rs = <<>> THEN TypeError
    ELSE IF Len(seqs) = 0 THEN ZeroDivisionError
    ELSE LET int_item == AssociationItem(rs, res, seqs)
             pairs == split_rules(rs)
         IN  [int_item |-> int_item,
              association_rules |->
                  [k \in 1..Len(pairs) |->
                      AssociationRule(int_item, pairs[k], res, seqs)]]

(***************************************************************************)
(* counter.py: create_in_out_sequences, extract_metrics and mine_patterns.  *)
(* The corpus is a list of traces, each a list of lists.  The prefixes are  *)
(* the defaults "In" and "Out".  A set of names is iterated in the order    *)
(* "perm", an enumeration of the vocabulary, gives it.                      *)
(***************************************************************************)
\* the itemsets of a trace: Rule.check reads an interval only through "in"
AsItemsets(seq) == [k \in 1..Len(seq) |-> SetOf(seq[k])]

\* some enumeration of a set
RECURSIVE SetToSeq(_)
SetToSeq(S) ==
    IF S = {} THEN <<>>
    ELSE LET x == CHOOSE y \in S : TRUE IN <<x>> \o SetToSeq(S \ {x})

\* create_in_out_sequences(sequences, in_prefix, out_prefix)
RECURSIVE CreateLoop(_, _, _, _, _)
CreateLoop(seqs, k, perm, new_sequences_, all_names_) ==
    IF k > Len(seqs)
    THEN [new_sequences |-> new_sequences_, all_names |-> all_names_]
    ELSE LET made == in_out_sequence(seqs[k], in_prefix, out_prefix, <<perm, perm>>)
         IN  CreateLoop(seqs, k + 1, perm,
                        Append(new_sequences_,
                               [i |-> k - 1, seq |-> made.newsequence,
                                names |-> made.all_names]),
                        all_names_ \cup made.all_names)

create_in_out_sequences(seqs, perm) == CreateLoop(seqs, 1, perm, <<>>, {})

\* rule_result[rule]: the access that makes the key of a defaultdict(set)
ResultTouch(res, r) ==
    IF \E k \in 1..Len(res) : RuleEq(res[k][1], r) THEN res
    ELSE Append(res, <<r, {}>>)

\* rule_result[rule].add(i)
ResultAdd(res, r, i) ==
    LET touched == ResultTouch(res, r)
    IN  [k \in 1..Len(touched) |->
            IF RuleEq(touched[k][1], r) THEN <<touched[k][1], touched[k][2] \cup {i}>>
            ELSE touched[k]]

\* for rule in original_rules: rule_result[rule]
RECURSIVE Seed(_, _, _)
Seed(rs, k, res) ==
    IF k > Len(rs) THEN res ELSE Seed(rs, k + 1, ResultTouch(res, rs[k]))

\* the loop over the pairs that makes no key for the rewritten rule
RECURSIVE Swap_NoKey(_, _, _, _)
Swap_NoKey(pairs, k, working_, res) ==
    IF k > Len(pairs) THEN [rules |-> working_, rule_result |-> res]
    ELSE Swap_NoKey(pairs, k + 1,
                    (working_ \ {pairs[k][1]}) \cup {pairs[k][2]}, res)

\* the loop over the pairs that sequence_bindings yields: the rewritten
\* rule takes the place of the original in the working set and gets a key
RECURSIVE Swap(_, _, _, _)
Swap(pairs, k, working_, res) ==
    IF k > Len(pairs) THEN [rules |-> working_, rule_result |-> res]
    ELSE Swap(pairs, k + 1,
              (working_ \ {pairs[k][1]}) \cup {pairs[k][2]},
              ResultTouch(res, pairs[k][2]))

\* for old_rule in ...: rule_result[old_rule].add(i)
RECURSIVE AddAll(_, _, _)
AddAll(res, olds, i) ==
    IF olds = <<>> THEN res ELSE AddAll(ResultAdd(res, Head(olds), i), Tail(olds), i)

\* the match loop that credits the matching rule only
Credit_RuleOnly(res, back, r, i) == ResultAdd(res, r, i)

\* rule_result[rule].add(i) and the same for every old_rule in
\* bindings.backref[rule]
Credit(res, back, r, i) ==
    AddAll(ResultAdd(res, r, i), SetToSeq(ResultGet(back, r)), i)

\* the loop over the working set: a rule that checks true is credited, and
\* bindings.backref[rule], a defaultdict access, makes its key
RECURSIVE CheckLoop(_, _, _, _, _, _)
CheckLoop(walk, k, seq, i, res, back) ==
    IF k > Len(walk) THEN [rule_result |-> res, backref |-> back]
    ELSE IF check(walk[k], seq)
    THEN CheckLoop(walk, k + 1, seq, i, Credit(res, back, walk[k], i),
                   ResultTouch(back, walk[k]))
    ELSE CheckLoop(walk, k + 1, seq, i, res, back)

\* the orders in which the candidate sets of a trace are iterated
OrdersOf(bound, names, perm) ==
    [k \in 1..Len(bound) |-> Walk(bound[k][2] \cap names, perm)]

\* one round of the loop of extract_metrics over new_sequences; st holds
\* rule_result and the fields of the Bindings object
ProcessTrace(st, entry, rs, bound, perm) ==
    LET b == sequence_bindings(
                 [enacted |-> st.enacted, backref |-> st.backref,
                  forwardref |-> st.forwardref, yielded |-> <<>>,
                  replacements |-> <<>>, rewritten |-> st.rewritten],
                 bound, entry.names, rs, TRUE, in_prefix, out_prefix,
                 OrdersOf(bound, entry.names, perm))
        swapped == Swap(b.yielded, 1, SetOf(rs), st.rule_result)
        matched == CheckLoop(SetToSeq(swapped.rules), 1, AsItemsets(entry.seq),
                             entry.i, swapped.rule_result, b.backref)
    IN  [rule_result |-> matched.rule_result,
         enacted |-> b.enacted,
         backref |-> matched.backref,
         forwardref |-> b.forwardref,
         rewritten |-> b.rewritten,
         yielded |-> b.yielded,
         rules |-> swapped.rules]

\* the state of extract_metrics before the first trace
Seeded(rs) ==
    [rule_result |-> Seed(rs, 1, <<>>), enacted |-> <<>>, backref |-> <<>>,
     forwardref |-> <<>>, rewritten |-> <<>>, yielded |-> <<>>, rules |-> {}]

RECURSIVE ExtractLoop(_, _, _, _, _, _)
ExtractLoop(st, entries, k, rs, bound, perm) ==
    IF k > Len(entries) THEN st
    ELSE ExtractLoop(ProcessTrace(st, entries[k], rs, bound, perm),
                     entries, k + 1, rs, bound, perm)

\* extract_metrics(sequences, original_rules, variables)
extract_metrics(seqs, rs, vars_, perm) ==
    LET created == create_in_out_sequences(seqs, perm)
    IN  ExtractLoop(Seeded(rs), created.new_sequences, 1, rs,
                    InitBindings(vars_, created.all_names), perm)

\* rules.index(old): the first position that holds an equal rule
IndexOfRule(rs, r) == Min({k \in 1..Len(rs) : RuleEq(rs[k], r)})

\* new_rules[rules.index(old)] = new, for each pair of replacements
RECURSIVE Substitute(_, _, _, _)
Substitute(rs, new_rules, pairs, k) ==
    IF k > Len(pairs) THEN new_rules
    ELSE Substitute(rs,
                    [new_rules EXCEPT ![IndexOfRule(rs, pairs[k][1])] = pairs[k][2]],
                    pairs, k + 1)

\* the loop of mine_patterns over bindings.enacted.items()
RECURSIVE PatternsLoop(_, _, _, _, _, _)
PatternsLoop(seqs, rs, res, memo, k, found) ==
    IF k > Len(memo) THEN found
    ELSE IF \E j \in 1..Len(memo[k][1]) : IsUnbound(memo[k][1][j])
    THEN PatternsLoop(seqs, rs, res, memo, k + 1, found)
    ELSE PatternsLoop(seqs, rs, res, memo, k + 1,
             Append(found,
                    [rules |-> Substitute(rs, rs, memo[k][2], 1),
                     report |-> mine_rules(seqs, Substitute(rs, rs, memo[k][2], 1), res),
                     binds |-> memo[k][1]]))

\* mine_patterns(sequences, rules, result, bindings): the list of patterns,
\* each with the rule list it was mined on, or what mine_rules raised
mine_patterns(seqs, rs, res, memo) ==
    IF rs = <<>> THEN TypeError
    ELSE IF Len(seqs) = 0 THEN ZeroDivisionError
    ELSE PatternsLoop(seqs, rs, res, memo, 1,
                      <<[rules |-> rs, report |-> mine_rules(seqs, rs, res),
                         binds |-> <<>>]>>)

(***************************************************************************)
(* The mining session: a rule list is mined over a corpus of which the      *)
(* rule-result map is given.                                                *)
(***************************************************************************)
MaxRules == 2

MaxCorpus == 2

\* the rules that are mined
Mined == <<Has("A"), Has("B"), Slice("A", FALSE, TRUE)>>

\* a corpus of n traces and a rule-result map over it
Corpus(n) ==
    /\ sequences = [i \in 1..n |-> <<>>]
    /\ \E lines \in [1..Len(Mined) -> SUBSET (0..(n - 1))] :
          rule_result = [i \in 1..Len(Mined) |-> <<Mined[i], lines[i]>>]

InitMine ==
    /\ pc = "extracted"
    /\ \/ /\ \E k \in 0..MaxRules :
                rules \in [1..k -> {Mined[i] : i \in 1..Len(Mined)}]
          /\ \E n \in 0..MaxCorpus : Corpus(n)
       \/ /\ rules \in {SubSeq(Mined, 1, 2), Mined}
          /\ Corpus(Len(Mined))
    /\ splits = <<>>
    /\ mined = NoRule
    /\ variables = <<>>
    /\ all_names = {}
    /\ unique = TRUE
    /\ sequence_names = {}
    /\ all_bindings = <<>>
    /\ considered = <<>>
    /\ yielded = <<>>
    /\ enacted = <<>>
    /\ backref = <<>>
    /\ forwardref = <<>>
    /\ rule = NoRule
    /\ NoMatching
    /\ NoComparison
    /\ NoParsing
    /\ NoText
    /\ NoVisit
    /\ NoInstrumenting
    /\ NoExtracting

\* list(split_rules(rules))
SplitRules ==
    /\ pc = "extracted"
    /\ splits' = split_rules(rules)
    /\ pc' = "split"
    /\ UNCHANGED <<matchVars, eqVars, parseVars, textVars, visitVars, bindVars, sequences, rule_result, mined, inoutVars, extractVars>>

\* mine_rules(sequences, rules, result)
MineRules ==
    /\ pc = "split"
    /\ mined' = mine_rules(sequences, rules, rule_result)
    /\ pc' = "mined"
    /\ UNCHANGED <<matchVars, eqVars, parseVars, textVars, visitVars, bindVars, sequences, rule_result, splits, inoutVars, extractVars>>

NextMine == SplitRules \/ MineRules

SpecMine == InitMine /\ [][NextMine]_vars

(***************************************************************************)
(* Claims about the association miner.                                      *)
(***************************************************************************)
\* the match-set the rule-result map holds for a rule
MatchSet(r) ==
    IF \E k \in 1..Len(rule_result) : rule_result[k][1] = r
    THEN rule_result[CHOOSE k \in 1..Len(rule_result) : rule_result[k][1] = r][2]
    ELSE {}

\* the number of corpus traces all the rules of a list match
Common(rs) ==
    Cardinality({i \in 0..(Len(sequences) - 1) :
                    \A k \in 1..Len(rs) : i \in MatchSet(rs[k])})

\* a / b as a number: NaN when b is zero
Ratio(a, b) == IF b = 0 THEN NaN ELSE Frac(a, b)

\* C17: support(R) is the size of the intersection of the match-sets of R
\* over N; for each pair (lhs, rhs), confidence is support(R)/support(lhs),
\* NaN when support(lhs) is 0, and lift is confidence/support(rhs), NaN
\* whenever support(rhs) is 0 and whenever the confidence is NaN.
C17_SupportConfidenceLift ==
    (pc = "mined" /\ rules # <<>> /\ Len(sequences) > 0) =>
        LET N == Len(sequences)
            found == mined.association_rules
        IN  /\ mined.int_item.support = Frac(Common(rules), N)
            /\ \A k \in 1..Len(found) :
                  LET lhs == splits[k][1]
                      rhs == splits[k][2]
                  IN  /\ found[k].lhs.support = Frac(Common(lhs), N)
                      /\ found[k].rhs.support = Frac(Common(rhs), N)
                      /\ found[k].confidence = Ratio(Common(rules), Common(lhs))
                      /\ found[k].lift =
                            IF Common(lhs) = 0 THEN NaN
                            ELSE Ratio(Common(rules) * N, Common(lhs) * Common(rhs))

\* three rules over three traces that no trace matches together: a pair whose
\* left side matches nothing, a pair whose right side alone matches nothing,
\* and a pair of which both sides match
C17_Witness ==
    /\ pc = "mined"
    /\ Len(rules) = 3
    /\ Len(sequences) = 3
    /\ \E k \in 1..Len(mined.association_rules) :
          /\ mined.association_rules[k].lhs.support = Frac(0, 1)
          /\ mined.association_rules[k].confidence = NaN
          /\ mined.association_rules[k].lift = NaN
    /\ \E k \in 1..Len(mined.association_rules) :
          /\ mined.association_rules[k].rhs.support = Frac(0, 1)
          /\ mined.association_rules[k].confidence = Frac(0, 1)
          /\ mined.association_rules[k].lift = NaN
    /\ \E k \in 1..Len(mined.association_rules) :
          /\ mined.association_rules[k].lhs.support = Frac(1, 3)
          /\ mined.association_rules[k].rhs.support = Frac(2, 3)
          /\ mined.association_rules[k].lift = Frac(0, 1)

\* rule A matches all of three traces and rule B none, and [A, B] is mined
AllAndNone ==
    /\ pc = "mined"
    /\ rules = <<Has("A"), Has("B")>>
    /\ Len(sequences) = 3
    /\ MatchSet(Has("A")) = {0, 1, 2}
    /\ MatchSet(Has("B")) = {}

\* C18 as stated: support(A) = 1.0, support(B) = 0.0, confidence(A => B) = 0.0
\* and lift(A => B) = 0.0, confidence(B => A) and lift(B => A) are NaN.
C18_AllAndNone_Stated ==
    AllAndNone =>
        LET found == mined.association_rules
        IN  /\ found[1].lhs.support = Frac(1, 1)
            /\ found[1].rhs.support = Frac(0, 1)
            /\ found[1].confidence = Frac(0, 1)
            /\ found[1].lift = Frac(0, 1)
            /\ found[2].confidence = NaN
            /\ found[2].lift = NaN

\* C18, amended: support(A) = 1.0, support(B) = 0.0, confidence(A => B) = 0.0
\* and lift(A => B) is NaN (zero over support(B) = 0), confidence(B => A)
\* and lift(B => A) are NaN.
C18_AllAndNone ==
    AllAndNone =>
        LET found == mined.association_rules
        IN  /\ Len(found) = 2
            /\ found[1].lhs.name = <<"A">> /\ found[1].rhs.name = <<"B">>
            /\ found[2].lhs.name = <<"B">> /\ found[2].rhs.name = <<"A">>
            /\ found[1].lhs.support = Frac(1, 1)
            /\ found[1].rhs.support = Frac(0, 1)
            /\ found[1].confidence = Frac(0, 1)
            /\ found[1].lift = NaN
            /\ found[2].confidence = NaN
            /\ found[2].lift = NaN

C18_Witness ==
    /\ AllAndNone
    /\ mined.int_item.lines = {}
    /\ mined.association_rules[1].lhs.lines = {0, 1, 2}

\* C19: mining never fails on a division by zero: a zero support(lhs),
\* support(rhs) or corpus size gives NaN for that value, not an error.
C19_NoDivisionError ==
    (pc = "mined" /\ rules # <<>>) =>
        /\ mined # ZeroDivisionError
        /\ Len(sequences) = 0 => mined.int_item.support = NaN

\* the rules of a list at the positions of S, in declared order
RECURSIVE Restrict(_, _, _)
Restrict(rs, S, i) ==
    IF i > Len(rs) THEN <<>>
    ELSE (IF i \in S THEN <<rs[i]>> ELSE <<>>) \o Restrict(rs, S, i + 1)

\* the bipartition of the rule list whose left side sits at the positions S
PairOf(S) == <<Restrict(rules, S, 1), Restrict(rules, (1..Len(rules)) \ S, 1)>>

\* the proper non-empty sets of positions of the rule list
ProperSubsets == (SUBSET (1..Len(rules))) \ {{}, 1..Len(rules)}

PairwiseDifferent == \A i, j \in 1..Len(rules) : i # j => rules[i] # rules[j]

Members(side) == {side[i] : i \in 1..Len(side)}

\* C20: for a list R of k rules split_rules yields exactly 2^k - 2 pairs
\* (lhs, rhs), one for every proper non-empty subset S taken as the left side
\* (so both (S, R\S) and (R\S, S) are there), each side non-empty and in
\* declared order, the two sides disjoint and together R, the pairs all
\* distinct; for k = 1 it yields nothing; mine_rules returns one
\* AssociationItem for R and exactly one AssociationRule per pair.
C20_AllBipartitions ==
    /\ (pc \in {"split", "mined"} /\ Len(rules) >= 1) =>
          /\ Len(splits) = 2 ^ Len(rules) - 2
          /\ Len(rules) = 1 => splits = <<>>
          /\ \A k \in 1..Len(splits) : \E S \in ProperSubsets : splits[k] = PairOf(S)
          /\ \A S \in ProperSubsets :
                Cardinality({k \in 1..Len(splits) : splits[k] = PairOf(S)})
                    = Cardinality({T \in ProperSubsets : PairOf(T) = PairOf(S)})
          /\ \A k \in 1..Len(splits) :
                /\ splits[k][1] # <<>> /\ splits[k][2] # <<>>
                /\ Len(splits[k][1]) + Len(splits[k][2]) = Len(rules)
                /\ Members(splits[k][1]) \cup Members(splits[k][2]) = Members(rules)
          /\ PairwiseDifferent =>
                /\ \A i, j \in 1..Len(splits) : i # j => splits[i] # splits[j]
                /\ \A k \in 1..Len(splits) :
                      Members(splits[k][1]) \cap Members(splits[k][2]) = {}
    /\ (pc = "mined" /\ Len(rules) >= 1 /\ Len(sequences) > 0) =>
          /\ mined.int_item.name = NameOf(rules)
          /\ mined.int_item.lines =
                {i \in 0..(Len(sequences) - 1) :
                    \A k \in 1..Len(rules) : i \in MatchSet(rules[k])}
          /\ Len(mined.association_rules) = Len(splits)
          /\ \A k \in 1..Len(splits) :
                /\ mined.association_rules[k].lhs.name = NameOf(splits[k][1])
                /\ mined.association_rules[k].rhs.name = NameOf(splits[k][2])

\* three different rules mined: six pairs, the first and the last of which
\* are the two orders of one bipartition
C20_Witness ==
    /\ pc = "mined"
    /\ Len(sequences) > 0
    /\ Len(rules) = 3
    /\ PairwiseDifferent
    /\ Len(mined.association_rules) = 6
    /\ splits[1] = <<<<rules[1]>>, <<rules[2], rules[3]>>>>
    /\ splits[6] = <<<<rules[2], rules[3]>>, <<rules[1]>>>>
    /\ mined.association_rules[6].lhs.name = NameOf(<<rules[2], rules[3]>>)

(***************************************************************************)
(* Claims about parse as a whole.                                           *)
(***************************************************************************)
\* C30: parse is total up to the parse error: for every text it returns a
\* Rule or raises ValueError ("Invalid syntax: ..."); no other exception
\* escapes.
C30_OnlyParseErrors ==
    pc = "parsed" => tree.type \in RuleTypes \cup {"ValueError"}

\* C29: the canonical text of a rule parses back to the rule: for every rule
\* r that parse returns, parse(repr(r)) == r.
C29_ReprParsesBack ==
    pc = "reparsed" => RuleEq(reparsed, tree)

(***************************************************************************)
(* Instrumenting session: a trace is drawn and in_out_sequence is called    *)
(* on it.                                                                   *)
(***************************************************************************)
MaxIntervals == 3

\* the elements of the traces; "InA" is an element that reads like a marker
TraceElements == {"A", "B", "InA"}

Groups ==
    {<<>>, <<"A">>, <<"B">>, <<"A", "B">>, <<"B", "A">>, <<"A", "A">>,
     <<"InA">>, <<"A", "InA">>}

InitInOut ==
    /\ pc = "traced"
    /\ \E n \in 0..MaxIntervals : trace \in [1..n -> Groups]
    /\ prefixes \in {<<"In", "Out">>, <<"", "Out">>, <<"In", "">>, <<"", "">>}
    /\ newsequence = <<>>
    /\ trace_names = {}
    /\ rule = NoRule
    /\ NoMatching
    /\ NoComparison
    /\ NoParsing
    /\ NoText
    /\ NoVisit
    /\ NoBinding
    /\ NoMining
    /\ NoExtracting

\* newsequence, all_names = in_out_sequence(trace, in_prefix, out_prefix)
InOutSequence ==
    /\ pc = "traced"
    /\ \E orders \in Orderings(TraceElements) \X Orderings(TraceElements) :
          LET returned == in_out_sequence(trace, prefixes[1], prefixes[2], orders)
          IN  /\ trace' = returned.given
              /\ newsequence' = returned.newsequence
              /\ trace_names' = returned.all_names
    /\ pc' = "instrumented"
    /\ UNCHANGED <<matchVars, eqVars, parseVars, textVars, visitVars, bindVars, mineVars, prefixes, extractVars>>

NextInOut == InOutSequence

SpecInOut == InitInOut /\ [][NextInOut]_vars

(***************************************************************************)
(* Claims about in_out_sequence.                                            *)
(***************************************************************************)
\* the elements of the itemset before itemset k of the trace (none before
\* the first)
Before(k) == IF k = 1 THEN {} ELSE SetOf(trace[k - 1])

InMarkers(k) ==
    IF prefixes[1] = "" THEN {}
    ELSE {prefixes[1] \o e : e \in SetOf(trace[k]) \ Before(k)}

OutMarkers(k) ==
    IF prefixes[2] = "" THEN {}
    ELSE {prefixes[2] \o e : e \in Before(k) \ SetOf(trace[k])}

\* C22: in_out_sequence returns a copy of the trace, the trace itself left
\* as it was, in which itemset k has gained in_prefix+e for every e of
\* itemset k that itemset k-1 lacks (every e of itemset 0) and out_prefix+e
\* for every e of itemset k-1 that itemset k lacks, an empty prefix giving no
\* marker of its kind; the vocabulary returned is the set of the elements of
\* the original trace.
C22_InOutMarkers ==
    [][(pc = "traced" /\ pc' = "instrumented") =>
          /\ trace' = trace
          /\ Len(newsequence') = Len(trace)
          /\ \A k \in 1..Len(trace) :
                /\ SubSeq(newsequence'[k], 1, Len(trace[k])) = trace[k]
                /\ SetOf(SubSeq(newsequence'[k], Len(trace[k]) + 1, Len(newsequence'[k])))
                      = InMarkers(k) \cup OutMarkers(k)
                /\ Len(newsequence'[k]) =
                      Len(trace[k]) + Cardinality(InMarkers(k)) + Cardinality(OutMarkers(k))
          /\ trace_names' = UNION {SetOf(trace[k]) : k \in 1..Len(trace)}]_vars

\* the trace A, then B, then A again, with both prefixes: the third itemset
\* has gained InA and OutB
C22_Witness ==
    /\ pc = "instrumented"
    /\ trace = <<<<"A">>, <<"B">>, <<"A">>>>
    /\ prefixes = <<"In", "Out">>
    /\ newsequence = <<<<"A", "InA">>, <<"B", "InB", "OutA">>, <<"A", "InA", "OutB">>>>
    /\ trace_names = {"A", "B"}

(***************************************************************************)
(* The extraction session: extract_metrics runs over a corpus, one trace    *)
(* at a time, and mine_patterns reports on what it returned.  A second run  *)
(* over a permutation of the corpus gives the map to compare with.          *)
(***************************************************************************)
\* the traces a corpus is made of
SampleTraces ==
    {<<>>,
     <<<<"A">>>>,
     <<<<"B">>>>,
     <<<<"A">>, <<"B">>>>,
     <<<<"C">>, <<"A">>>>,
     <<<<"A">>, <<"A", "B">>>>}

\* the declarations and rule lists of the runs
Declared ==
    {[variables |-> <<>>, rules |-> <<Has("A")>>],
     [variables |-> <<>>, rules |-> <<Has("A"), Not(Has("B"))>>],
     [variables |-> <<<<"X">>>>, rules |-> <<Has("X")>>],
     [variables |-> <<<<"X">>>>, rules |-> <<Not(Has("X"))>>],
     [variables |-> <<<<"X">>>>, rules |-> <<Has("A")>>],
     [variables |-> <<<<"X">>>>, rules |-> <<Has("X"), Has("X")>>],
     [variables |-> <<<<"X">>>>,
      rules |-> <<Lshift(Slice("A", FALSE, FALSE), Has("X")), Has("InX")>>],
     [variables |-> <<<<"X", ":", "A", ",", "C">>, <<"Y", ":", "A", ",", "B">>>>,
      rules |-> <<First(Has("X")), First(Has("Y"))>>],
     [variables |-> <<<<"X", "~", "A">>, <<"Y", ":", "A">>>>,
      rules |-> <<Lshift(Slice("Y", FALSE, FALSE), Has("X")), Has("Y")>>]}

InitExtract ==
    /\ pc = "corpus"
    /\ \E n \in 0..MaxCorpus : sequences \in [1..n -> SampleTraces]
    /\ \E declared \in Declared :
          /\ variables = declared.variables
          /\ rules = declared.rules
    /\ unique = TRUE
    /\ all_names = {}
    /\ sequence_names = {}
    /\ all_bindings = <<>>
    /\ considered = <<>>
    /\ yielded = <<>>
    /\ enacted = <<>>
    /\ backref = <<>>
    /\ forwardref = <<>>
    /\ rule_result = <<>>
    /\ splits = <<>>
    /\ mined = NoRule
    /\ rule = NoRule
    /\ NoMatching
    /\ NoComparison
    /\ NoParsing
    /\ NoText
    /\ NoVisit
    /\ NoInstrumenting
    /\ NoExtracting

\* extract_metrics up to its loop: the corpus is instrumented, the Bindings
\* object built and the rule-result map seeded
Seeding ==
    /\ pc = "corpus"
    /\ \E perm \in Orderings(Vocabulary) :
          LET created == create_in_out_sequences(sequences, perm)
          IN  /\ new_sequences' = created.new_sequences
              /\ all_names' = created.all_names
              /\ all_bindings' = InitBindings(variables, created.all_names)
    /\ rule_result' = Seed(rules, 1, <<>>)
    /\ pc' = "extracting"
    /\ UNCHANGED <<matchVars, eqVars, parseVars, textVars, visitVars, inoutVars,
                   variables, unique, rules, sequence_names, considered, yielded,
                   enacted, backref, forwardref, sequences, splits, mined,
                   processed, working, rewrites, patterns, shuffled>>

\* one round of the loop over new_sequences
NextTrace ==
    /\ pc = "extracting"
    /\ processed < Len(new_sequences)
    /\ \E perm \in Orderings(Vocabulary) :
          LET entry == new_sequences[processed + 1]
              after == ProcessTrace(
                           [rule_result |-> rule_result, enacted |-> enacted,
                            backref |-> backref, forwardref |-> forwardref,
                            rewritten |-> rewrites],
                           entry, rules, all_bindings, perm)
          IN  /\ sequence_names' = entry.names
              /\ rule_result' = after.rule_result
              /\ enacted' = after.enacted
              /\ backref' = after.backref
              /\ forwardref' = after.forwardref
              /\ rewrites' = after.rewritten
              /\ yielded' = after.yielded
              /\ working' = after.rules
    /\ processed' = processed + 1
    /\ pc' = "extracting"
    /\ UNCHANGED <<matchVars, eqVars, parseVars, textVars, visitVars, inoutVars,
                   variables, all_names, unique, rules, all_bindings, considered,
                   sequences, splits, mined, new_sequences, patterns, shuffled>>

\* return rule_result, bindings
Return ==
    /\ pc = "extracting"
    /\ processed = Len(new_sequences)
    /\ pc' = "extracted"
    /\ UNCHANGED <<matchVars, eqVars, parseVars, textVars, visitVars, inoutVars,
                   bindVars, mineVars, extractVars>>

\* mine_patterns(sequences, rules, rule_result, bindings)
MinePatterns ==
    /\ pc = "extracted"
    /\ patterns' = mine_patterns(sequences, rules, rule_result, enacted)
    /\ pc' = "reported"
    /\ UNCHANGED <<matchVars, eqVars, parseVars, textVars, visitVars, inoutVars,
                   bindVars, mineVars, new_sequences, processed, working,
                   rewrites, shuffled>>

\* the permutations of 1..n
Reorderings(n) == Orderings(1..n)

\* extract_metrics on the corpus in another order
Shuffle ==
    /\ pc = "extracted"
    /\ \E p \in Reorderings(Len(sequences)) :
       \E perm \in Orderings(Vocabulary) :
          shuffled' =
             [p |-> p,
              rule_result |->
                  extract_metrics([k \in 1..Len(sequences) |-> sequences[p[k]]],
                                  rules, variables, perm).rule_result]
    /\ pc' = "shuffled"
    /\ UNCHANGED <<matchVars, eqVars, parseVars, textVars, visitVars, inoutVars,
                   bindVars, mineVars, new_sequences, processed, working,
                   rewrites, patterns>>

NextExtract == Seeding \/ NextTrace \/ Return \/ MinePatterns \/ Shuffle

SpecExtract == InitExtract /\ [][NextExtract]_vars

(***************************************************************************)
(* Claims about extract_metrics and mine_patterns.                          *)
(***************************************************************************)
Extracting == pc \in {"extracting", "extracted", "reported", "shuffled"}

\* the keys of the rule-result map
Keys == {rule_result[k][1] : k \in 1..Len(rule_result)}

\* the pairs (original, rewritten) the memo holds
Recorded == UNION {SetOf(enacted[k][2]) : k \in 1..Len(enacted)}

\* the rewritten rules
Rewritten == {pair[2] : pair \in Recorded}

\* the originals the backward correspondence map holds for a rule
BackSet(r) ==
    IF \E k \in 1..Len(backref) : backref[k][1] = r
    THEN backref[CHOOSE k \in 1..Len(backref) : backref[k][1] = r][2]
    ELSE {}

\* rule r checks true on the instrumented form of trace i
Matches(r, i) == check(r, AsItemsets(new_sequences[i + 1].seq))

\* C24: at every point of an extraction run and in the map returned, every
\* declared rule is a key of the rule-result map, and so is every rewritten
\* rule that was swapped into the working set of a trace already processed,
\* whether it matched or not.
C24_KeysStayVisible ==
    Extracting =>
        /\ SetOf(rules) \subseteq Keys
        /\ Rewritten \subseteq Keys
        /\ working \subseteq Keys
        /\ \A i, j \in 1..Len(rule_result) :
              i # j => rule_result[i][1] # rule_result[j][1]

\* the run is over with a declared rule and a rewritten rule that never
\* matched, both keys with an empty match-set
C24_Witness ==
    /\ pc = "extracted"
    /\ Len(sequences) = 2
    /\ \E r \in SetOf(rules) : MatchSet(r) = {} /\ r \in Keys
    /\ \E r \in Rewritten \ SetOf(rules) : MatchSet(r) = {} /\ r \in Keys
    /\ \E r \in Rewritten : MatchSet(r) # {}

\* the rule list of a working set: the declared rules, each original that a
\* yielded pair rewrites swapped out for its rewrites
Swapped ==
    (SetOf(rules) \ {yielded[k][1] : k \in 1..Len(yielded)})
        \cup {yielded[k][2] : k \in 1..Len(yielded)}

\* C26: when trace i is processed, every rule r of its working set that
\* checks true on the instrumented trace gets i in its match-set, and so does
\* every original that the backward correspondence map holds for r at that
\* moment, whatever tuple it was recorded under; a rule of the working set
\* that does not match adds i to no match-set, and no other index is added.
C26_CreditsRuleAndAncestors ==
    [][(pc = "extracting" /\ processed' = processed + 1) =>
          LET i == processed
              matching == {r \in working' : Matches(r, i)}
              credited == matching \cup UNION {BackSet(r)' : r \in matching}
          IN  /\ working' = Swapped'
              /\ \A k \in 1..Len(rule_result') :
                    LET r == rule_result'[k][1]
                    IN  /\ (i \in rule_result'[k][2]) <=> (r \in credited)
                        /\ rule_result'[k][2] \ {i} = MatchSet(r)]_vars

\* the second trace is processed: ^A matches it, and ^Y, which the first
\* trace recorded as an original of ^A under another tuple, gets the index
C26_Witness ==
    /\ pc = "extracting"
    /\ processed = 2
    /\ rules = <<First(Has("X")), First(Has("Y"))>>
    /\ yielded = <<<<First(Has("X")), First(Has("A"))>>, <<First(Has("Y")), First(Has("B"))>>>>
    /\ Matches(First(Has("A")), 1)
    /\ ~Matches(First(Has("B")), 1)
    /\ BackSet(First(Has("A"))) = {First(Has("X")), First(Has("Y"))}
    /\ MatchSet(First(Has("Y"))) = {1}

\* C27: when extract_metrics returns, the match-set of every rewritten rule
\* r is a subset of the match-set of every original the backward
\* correspondence map holds for r.
C27_RewriteWithinAncestor ==
    pc = "extracted" =>
        \A r \in Rewritten : \A o \in BackSet(r) : MatchSet(r) \subseteq MatchSet(o)

\* the match-set the run on the permuted corpus gives a rule
ShuffledSet(r) ==
    LET res == shuffled.rule_result
    IN  IF \E k \in 1..Len(res) : res[k][1] = r
        THEN res[CHOOSE k \in 1..Len(res) : res[k][1] = r][2]
        ELSE {}

\* the indices a set of trace indices has in the permuted corpus, whose
\* trace k - 1 is trace p[k] - 1 of the corpus
Image(lines) == {k - 1 : k \in {j \in 1..Len(sequences) : shuffled.p[j] - 1 \in lines}}

\* C28: for any permutation p of the corpus, every rule's match-set on the
\* permuted corpus is the image under p of its match-set on the corpus.
C28_OrderOfCorpus ==
    pc = "shuffled" =>
        /\ {shuffled.rule_result[k][1] : k \in 1..Len(shuffled.rule_result)} = Keys
        /\ \A r \in Keys : ShuffledSet(r) = Image(MatchSet(r))

\* C23: after extract_metrics the rule-result map gives, for every rewritten
\* rule, and for every declared rule when no variables are declared, exactly
\* the indices of the corpus traces on which the rule checks true.
C23_MatchSetIsAllMatches ==
    pc = "extracted" =>
        \A r \in Rewritten \cup (IF variables = <<>> THEN SetOf(rules) ELSE {}) :
            MatchSet(r) = {i \in 0..(Len(sequences) - 1) : Matches(r, i)}

\* C25: within one run the rename transformation over the declared rule list
\* is executed at most once per binding tuple.
C25_RewrittenOncePerTuple ==
    Extracting =>
        \A i, j \in 1..Len(rewrites) : i # j => ~BindingsEq(rewrites[i], rewrites[j])

\* the memo entries whose tuple holds no Unbound
Bound == SelectSeq(enacted, LAMBDA e : \A j \in 1..Len(e[1]) : ~IsUnbound(e[1][j]))

\* the declared list with the rewritten rules of a pair list at the
\* positions of the rules they replace
Replaced(pairs) ==
    [j \in 1..Len(rules) |->
        IF \E pair \in SetOf(pairs) : pair[1] = rules[j]
        THEN (CHOOSE pair \in SetOf(pairs) : pair[1] = rules[j])[2]
        ELSE rules[j]]

\* C21: mine_patterns returns the report for the declared rule list with an
\* empty binding, then one entry per tuple of the memo without Unbound, in
\* the order of the memo, each mined on the declared list with the tuple's
\* rewritten rules at the positions of the rules they replace; no entry has
\* a tuple with Unbound.
C21_OnePatternPerBoundTuple ==
    (pc = "reported" /\ Len(sequences) > 0) =>
        /\ Len(patterns) = 1 + Len(Bound)
        /\ patterns[1].binds = <<>>
        /\ patterns[1].report = mine_rules(sequences, rules, rule_result)
        /\ \A k \in 1..Len(Bound) :
              /\ patterns[k + 1].binds = Bound[k][1]
              /\ patterns[k + 1].rules = Replaced(Bound[k][2])
              /\ patterns[k + 1].report =
                    mine_rules(sequences, Replaced(Bound[k][2]), rule_result)

====
